---- MODULE Spec2Model ----
(***************************************************************************)
(* Model of the query-routing and fact-extraction core of module7/app.py:  *)
(* determine_action, run_kb_agent, the top-level request handler and the   *)
(* string helpers _looks_like_kb_query, _normalize_store_content,          *)
(* _extract_memory_entries and _answer_from_memory; of the hotel helpers   *)
(* of vtb-agents/hotel_helpers.py (extract_hotel_tuple, score_name_match,  *)
(* flatten_candidates, string_contains); of the availability tool and the  *)
(* best-match search of vtb-agents/external_hotel_data_agent.py; and of    *)
(* run_research_workflow of module4/agents_workflow.py.                    *)
(*                                                                         *)
(* Python str values are TLA+ strings; Len, \o, SubSeq, Head and Tail act  *)
(* on them character by character.  An Optional[str] is a record           *)
(* [none, str].                                                            *)
(***************************************************************************)
EXTENDS Integers, Sequences, FiniteSets, TLC

VARIABLES
    sessions,     \* the browser sessions of the run
    environ,      \* os.environ[kb_env_key]; "" when the variable is unset
    kb_id_input,  \* kb_id_input[s]: the sidebar's text input of session s
    agent_cache,  \* the kb_ids st.cache_resource holds a get_kb_agent result for
    pc,           \* pc[s]: where session s's script run stands
    query,        \* query[s]: the utterance being handled
    action,       \* action[s]: the route determine_action returned
    kb_id,        \* kb_id[s]: run_kb_agent's local kb_id
    sub_action,   \* sub_action[s]: run_kb_agent's action_text
    result_str,   \* result_str[s]: str(result) of the memory retrieve call
    content,      \* content[s]: the response text, or the exception text
    calls,        \* calls[s]: the external calls of the current request, in order
    messages,     \* messages[s]: st.session_state.messages
    call          \* a helper function's invocation: its arguments and return value

vars == <<sessions, environ, kb_id_input, agent_cache, pc, query, action, kb_id, sub_action,
          result_str, content, calls, messages, call>>

handlerVars == <<sessions, environ, kb_id_input, agent_cache, pc, query, action, kb_id,
                 sub_action, result_str, content, calls, messages>>

-----------------------------------------------------------------------------
(* Python values *)

PyNone == [none |-> TRUE, str |-> ""]

PyStr(s) == [none |-> FALSE, str |-> s]

\* `x or ""` for an Optional[str] x
OrEmpty(x) == IF x.none THEN "" ELSE x.str

-----------------------------------------------------------------------------
(* str methods *)

UPPERCASE == "ABCDEFGHIJKLMNOPQRSTUVWXYZ"

LOWERCASE == "abcdefghijklmnopqrstuvwxyz"

Char(s, i) == SubSeq(s, i, i)

UpperChars == {Char(UPPERCASE, i) : i \in 1..Len(UPPERCASE)}

LowerOf == [c \in UpperChars |->
              Char(LOWERCASE, CHOOSE i \in 1..Len(UPPERCASE) : Char(UPPERCASE, i) = c)]

LowerChar(c) == IF c \in UpperChars THEN LowerOf[c] ELSE c

\* str.lower(), character by character
RECURSIVE Lower(_)
Lower(s) ==
    IF s = "" THEN ""
    ELSE IF Len(s) = 1 THEN LowerChar(s)
    ELSE Lower(SubSeq(s, 1, Len(s) \div 2)) \o Lower(SubSeq(s, Len(s) \div 2 + 1, Len(s)))

\* str.isspace() of one character
IsSpace(c) == c \in {" ", "\t", "\n", "\r", "\f"}

\* str.lstrip()
RECURSIVE LStrip(_)
LStrip(s) == IF s # "" /\ IsSpace(Head(s)) THEN LStrip(Tail(s)) ELSE s

\* str.rstrip()
RECURSIVE RStrip(_)
RStrip(s) ==
    IF s # "" /\ IsSpace(Char(s, Len(s)))
    THEN RStrip(SubSeq(s, 1, Len(s) - 1))
    ELSE s

\* str.strip()
Strip(s) == RStrip(LStrip(s))

\* str.startswith(p)
StartsWith(s, p) == Len(s) >= Len(p) /\ SubSeq(s, 1, Len(p)) = p

\* s[n:]
From(s, n) == SubSeq(s, n + 1, Len(s))

\* s[:n]
UpTo(s, n) == SubSeq(s, 1, n)

\* the least element of a non-empty set of integers
Min(S) == CHOOSE a \in S : \A b \in S : a <= b

\* the greatest element of a non-empty set of integers
Max(S) == CHOOSE a \in S : \A b \in S : b <= a

\* the offsets (0-based) at which sub occurs in s
Occurrences(s, sub) ==
    {i \in 0..(Len(s) - Len(sub)) : SubSeq(s, i + 1, i + Len(sub)) = sub}

\* str.find(sub): the lowest offset, -1 when absent
Find(s, sub) == IF Occurrences(s, sub) = {} THEN -1 ELSE Min(Occurrences(s, sub))

\* sub in s
Contains(s, sub) == Find(s, sub) > -1

\* s.split(sep, 1)[1], for s containing sep
AfterFirst(s, sep) == From(s, Find(s, sep) + Len(sep))

\* str.replace(old, new)
RECURSIVE Replace(_, _, _)
Replace(s, old, new) ==
    LET i == Find(s, old)
    IN IF i = -1 THEN s
       ELSE UpTo(s, i) \o new \o Replace(From(s, i + Len(old)), old, new)

\* sep.join(parts)
RECURSIVE Join(_, _)
Join(sep, parts) ==
    IF parts = <<>> THEN ""
    ELSE IF Len(parts) = 1 THEN parts[1]
    ELSE parts[1] \o sep \o Join(sep, Tail(parts))

\* the offsets of the line-boundary characters of s
LineBreaksOf(s) == {i \in 0..(Len(s) - 1) : Char(s, i + 1) \in {"\n", "\r", "\f"}}

\* the length of the line terminator of s at offset i: "\r\n" is one terminator
LineBreakLen(s, i) ==
    IF i + 2 <= Len(s) /\ SubSeq(s, i + 1, i + 2) = "\r\n" THEN 2 ELSE 1

\* str.splitlines(): no empty last line after a final terminator
RECURSIVE SplitLines(_)
SplitLines(s) ==
    IF s = "" THEN <<>>
    ELSE IF LineBreaksOf(s) = {} THEN <<s>>
    ELSE LET i == Min(LineBreaksOf(s))
         IN <<UpTo(s, i)>> \o SplitLines(From(s, i + LineBreakLen(s, i)))

-----------------------------------------------------------------------------
(* _looks_like_kb_query *)

kb_keywords ==
    << "remember", "store", "save", "record", "note that",
       "what did i tell", "what do you remember", "recall", "retrieve",
       "my name is", "i live", "my birthday", "where do i live", "who am i" >>

\* the test on the query as typed, not lower-cased
_looks_like_kb_query_noLower(q) ==
    \E i \in 1..Len(kb_keywords) : Contains(OrEmpty(q), kb_keywords[i])

\* any(k in text for k in kb_keywords)
_looks_like_kb_query(q) ==
    LET text == Lower(OrEmpty(q))
    IN \E i \in 1..Len(kb_keywords) : Contains(text, kb_keywords[i])

-----------------------------------------------------------------------------
(* _normalize_store_content *)

\* the list with each short prefix ahead of its "... that " form
prefixes_shortFirst ==
    << "remember ", "remember that ", "save ", "save that ",
       "store ", "store that ", "note that ", "record that " >>

\* the list with the prefixes written without their final space
prefixes_noSpace ==
    << "remember that", "remember", "save that", "save",
       "store that", "store", "note that", "record that" >>

prefixes ==
    << "remember that ", "remember ", "save that ", "save ",
       "store that ", "store ", "note that ", "record that " >>

\* the loop `for p in prefixes`, from the i-th prefix on
RECURSIVE StripFirstPrefix(_, _, _)
StripFirstPrefix(text, lower, i) ==
    IF i > Len(prefixes) THEN text
    ELSE IF StartsWith(lower, prefixes[i])
         THEN Strip(From(text, Len(prefixes[i])))
         ELSE StripFirstPrefix(text, lower, i + 1)

_normalize_store_content(raw) ==
    LET text == Strip(OrEmpty(raw))
        lower == Lower(text)
    IN StripFirstPrefix(text, lower, 1)

-----------------------------------------------------------------------------
(* _extract_memory_entries *)

MARKER == "Content Preview:"

CONTENT_KEY == "\"content\":"

\* part after `if part.startswith('"'): part = part[1:]`
DropLeadingQuote(part) == IF StartsWith(part, "\"") THEN From(part, 1) ELSE part

\* the value's end: part.find('"')
ValueEnd(part) == Find(part, "\"")

\* the loop body appending a snippet only when it is not an entry yet
ExtractLine_dedup(line, entries) ==
    IF ~Contains(line, MARKER) THEN entries
    ELSE LET snippet == Strip(AfterFirst(line, MARKER))
             part == DropLeadingQuote(LStrip(AfterFirst(snippet, CONTENT_KEY)))
             end == ValueEnd(part)
             new == IF Contains(snippet, CONTENT_KEY) /\ end > -1
                    THEN Strip(UpTo(part, end))
                    ELSE snippet
         IN IF new = "" \/ \E i \in 1..Len(entries) : entries[i] = new
            THEN entries
            ELSE Append(entries, new)

\* the body of the loop for one line: entries after the line
ExtractLine(line, entries) ==
    IF ~Contains(line, MARKER) THEN entries
    ELSE LET snippet == Strip(AfterFirst(line, MARKER))
             part == DropLeadingQuote(LStrip(AfterFirst(snippet, CONTENT_KEY)))
             end == ValueEnd(part)
         IN IF Contains(snippet, CONTENT_KEY) /\ end > -1
            THEN Append(entries, Strip(UpTo(part, end)))
            ELSE IF snippet # "" THEN Append(entries, snippet)
            ELSE entries

\* `for line in lines`
RECURSIVE ExtractLoop(_, _)
ExtractLoop(lines, entries) ==
    IF lines = <<>> THEN entries
    ELSE ExtractLoop(Tail(lines), ExtractLine(Head(lines), entries))

\* the entries list outlives the call: each call appends to the list the
\* call before it returned
_extract_memory_entries_keepsEntries(raw_results) ==
    IF raw_results = "" THEN call.ret
    ELSE ExtractLoop(SplitLines(raw_results), call.ret)

_extract_memory_entries(raw_results) ==
    IF raw_results = "" THEN <<>>
    ELSE ExtractLoop(SplitLines(raw_results), <<>>)

-----------------------------------------------------------------------------
(* re.search(r"w1\s+w2\s+...\s+([^\n\"\.]+)", blob, re.IGNORECASE) *)

\* the number of \s characters of s from offset i on
RECURSIVE WsRun(_, _)
WsRun(s, i) ==
    IF i < Len(s) /\ IsSpace(Char(s, i + 1)) THEN 1 + WsRun(s, i + 1) ELSE 0

\* a character of the class [^\n\"\.]
ValueChar(c) == c \notin {"\n", "\"", "."}

\* the length of the run of class characters of s from offset i on
RECURSIVE ValueRun(_, _)
ValueRun(s, i) ==
    IF i < Len(s) /\ ValueChar(Char(s, i + 1)) THEN 1 + ValueRun(s, i + 1) ELSE 0

\* the literal words, \s+ between them, matched at offset i ignoring case:
\* the offset after the last word, -1 when they do not match
RECURSIVE MatchWordsAt(_, _, _)
MatchWordsAt(s, i, words) ==
    LET w == Head(words)
        j == i + Len(w)
    IN IF j > Len(s) \/ Lower(SubSeq(s, i + 1, j)) # w THEN -1
       ELSE IF Len(words) = 1 THEN j
       ELSE IF WsRun(s, j) = 0 THEN -1
       ELSE MatchWordsAt(s, j + WsRun(s, j), Tail(words))

\* \s+([^\n\"\.]+) at offset j: the greedy \s+ gives back whitespace until a
\* class character follows it; the offsets where the group can start
GroupStarts(s, j) == {j + k : k \in {n \in 1..WsRun(s, j) : ValueRun(s, j + n) > 0}}

\* the group of the match at offset i, PyNone when there is no match there
MatchAt(s, i, words) ==
    LET j == MatchWordsAt(s, i, words)
    IN IF j = -1 \/ GroupStarts(s, j) = {} THEN PyNone
       ELSE LET g == Max(GroupStarts(s, j))
            IN PyStr(SubSeq(s, g + 1, g + ValueRun(s, g)))

\* the offsets at which the pattern matches
MatchOffsets(s, words) == {i \in 0..(Len(s) - 1) : ~MatchAt(s, i, words).none}

\* re.search: group 1 of the leftmost match, PyNone when there is none
re_search(words, blob) ==
    IF MatchOffsets(blob, words) = {} THEN PyNone
    ELSE MatchAt(blob, Min(MatchOffsets(blob, words)), words)

-----------------------------------------------------------------------------
(* _answer_from_memory *)

BIRTHDAY_RE == << "birthday", "is" >>

LIVE_RE == << "i", "live", "in" >>

NAME_RE == << "my", "name", "is" >>

\* the question-type tests on the lower-cased query
AsksBirthday(q) == Contains(q, "birthday")

AsksResidence(q) == Contains(q, "where do i live") \/ Contains(q, "where i live")

AsksName(q) == Contains(q, "my name")

\* val after .strip() alone
BirthdayValue_keepSpelling(m) == Strip(m.str)

\* val after .strip() and .replace("oktober", "october")
BirthdayValue(m) == Replace(Strip(m.str), "oktober", "october")

\* the three question types as one if / elif chain: the first type named by
\* the query is the only one tried
_answer_from_memory_elif(q_in, memories) ==
    LET q == Lower(OrEmpty(q_in))
        blob == Join("\n", memories)
        mb == re_search(BIRTHDAY_RE, blob)
        ml == re_search(LIVE_RE, blob)
        mn == re_search(NAME_RE, blob)
    IN IF AsksBirthday(q)
       THEN IF mb.none THEN PyNone
            ELSE PyStr("Your birthday is " \o BirthdayValue(mb) \o ".")
       ELSE IF AsksResidence(q)
       THEN IF ml.none THEN PyNone
            ELSE PyStr("You live in " \o Strip(ml.str) \o ".")
       ELSE IF AsksName(q) /\ ~mn.none
       THEN PyStr("Your name is " \o Strip(mn.str) \o ".")
       ELSE PyNone

_answer_from_memory(q_in, memories) ==
    LET q == Lower(OrEmpty(q_in))
        blob == Join("\n", memories)
        mb == re_search(BIRTHDAY_RE, blob)
        ml == re_search(LIVE_RE, blob)
        mn == re_search(NAME_RE, blob)
    IN IF AsksBirthday(q) /\ ~mb.none
       THEN PyStr("Your birthday is " \o BirthdayValue(mb) \o ".")
       ELSE IF AsksResidence(q) /\ ~ml.none
       THEN PyStr("You live in " \o Strip(ml.str) \o ".")
       ELSE IF AsksName(q) /\ ~mn.none
       THEN PyStr("Your name is " \o Strip(mn.str) \o ".")
       ELSE PyNone

-----------------------------------------------------------------------------
(* Bounds and input alphabets *)

MaxTokens == 3    \* tokens of an utterance given to _normalize_store_content

MaxLines == 2     \* lines of a retrieval result given to _extract_memory_entries

MaxEntries == 2   \* entries given to _answer_from_memory

\* the strings made of at most n tokens of T
RECURSIVE Words(_, _)
Words(T, n) ==
    IF n = 0 THEN {""}
    ELSE Words(T, n - 1) \cup {w \o t : w \in Words(T, n - 1), t \in T}

\* the sequences of at most n elements of S
RECURSIVE SeqsUpTo(_, _)
SeqsUpTo(S, n) ==
    IF n = 0 THEN {<<>>}
    ELSE SeqsUpTo(S, n - 1) \cup {Append(q, x) : q \in SeqsUpTo(S, n - 1), x \in S}

NormalizeTokens ==
    {"remember ", "Remember ", "save ", "store ", "note ", "record ", "that ",
     " ", "x", "Oct"}

NormalizeInputs ==
    {PyNone}
        \cup {PyStr(w) : w \in Words(NormalizeTokens, MaxTokens)}
        \cup {PyStr("Remember that my birthday is 12 Oct"), PyStr("Hello there"),
              PyStr("\t remember\tthat x \n"), PyStr("SAVE THAT Fact")}

ResultLines ==
    {"Content Preview: {\"content\": \"my birthday is 12 oktober\"}",
     "Content Preview: plain text fact",
     "Title: my note",
     "",
     "Content Preview:",
     "  Score: 0.9 Content Preview:   my name is Bob  ",
     "Content Preview: a Content Preview: b",
     "Content Preview: {\"content\": \"say \\\"hi\\\" now\"}",
     "Content Preview: {\"content\": 12, \"tag\": \"x\"}",
     "Content Preview: {\"content\": \"\"}",
     "Content Preview: {\"content\": \"unterminated",
     "Content Preview: {\"content\": 12}",
     "Content Preview: {\"content\":\" I live in Paris \"}",
     "content preview: lower-case marker"}

LineBreaks == {"\n", "\r\n"}

\* the retrieval results of at most MaxLines lines: the lines, and the text that
\* holds them, joined by one kind of line break, with or without a final one
ExtractInputs ==
    {[lines |-> ls, raw |-> Join(b, ls) \o end] :
        ls \in SeqsUpTo(ResultLines, MaxLines), b \in LineBreaks, end \in {"", "\n"}}

Questions ==
    {PyNone, PyStr("what is my birthday"), PyStr("When is my Birthday?"),
     PyStr("where do i live"), PyStr("what is my name"),
     PyStr("tell me my birthday and my name"), PyStr("hello")}

Facts ==
    {"my birthday is 12 oktober", "My Birthday  is 3 May. I was born in Oslo",
     "my birthday", "is 12 Oct", "I live in Paris", "my name is Bob",
     "birthday is \"", "my birthday is \t", "Oktober: birthday is oktober 1 oktober\"x"}

AnswerInputs == Questions \X SeqsUpTo(Facts, MaxEntries)

-----------------------------------------------------------------------------
(* No helper function is being called on its own *)

NoCall == [fn |-> "none"]

-----------------------------------------------------------------------------
(* Knowledge-base ID handling *)

DEFAULT_KB_ID == "demokb123"

DIGITS == "0123456789"

\* str.isalnum()
IsAlnum(s) ==
    /\ s # ""
    /\ \A i \in 1..Len(s) :
          \/ Contains(UPPERCASE, Char(s, i))
          \/ Contains(LOWERCASE, Char(s, i))
          \/ Contains(DIGITS, Char(s, i))

\* the ID checked for its characters alone
is_valid_kb_id_anyLength(id) == IsAlnum(id)

is_valid_kb_id(id) == IsAlnum(id) /\ Len(id) >= 6

\* os.environ.get(kb_env_key) or DEFAULT_KB_ID
get_current_kb_id == IF environ = "" THEN DEFAULT_KB_ID ELSE environ

\* get_kb_agent(id) under st.cache_resource: the body runs, and sets the
\* environment variable, only when no agent is cached for id
EnvironAfterGetAgent(id, env) == IF id \in agent_cache THEN env ELSE id

CacheAfterGetAgent(id) == agent_cache \cup {id}

\* the sidebar: a non-empty input that differs from the variable overwrites it
EnvironAfterSidebar(s) ==
    IF kb_id_input[s] # "" /\ kb_id_input[s] # environ THEN kb_id_input[s] ELSE environ

-----------------------------------------------------------------------------
(* The external collaborators: what str() of their results can be *)

MaxRequests == 2   \* queries submitted in one session

\* IDs typed into the sidebar
KbIds == {DEFAULT_KB_ID, "my-kb-2024", "kb1"}

Utterances == {"Remember that my birthday is 12 Oct", "what is 2+2", " "}

\* use_llm under ACTION_SYSTEM_PROMPT
RouteOutputs ==
    {"teacher", " Knowledgebase\n", "knowledgebase please",
     "{'status': 'success', 'content': [{'text': 'knowledgebase'}]}"}

\* use_llm under KB_ACTION_SYSTEM_PROMPT
ActionOutputs == {"store", "retrieve", " Storeroom\n", "Do not store"}

\* memory(action="store")
StoreOutputs == {"{'status': 'success'}", "{'status': 'error', 'content': 'denied'}"}

\* memory(action="retrieve")
RetrieveOutputs ==
    {"{'status': 'error', 'content': 'No results found. Content Preview: x'}",
     "No results found.\nContent Preview: stale",
     "Content Preview: {\"content\": \"my birthday is 12 oktober\"}\nScore: 0.9",
     "Content Preview: I like tea",
     "Score: 0.1"}

\* use_llm under ANSWER_SYSTEM_PROMPT
SummaryOutputs == {"You like tea."}

\* the teacher agent
TeacherOutputs == {"4"}

\* str(e) of an exception an external call raises
Errors == {"ThrottlingException"}

-----------------------------------------------------------------------------
(* The request handler *)

\* one external call: the tool, what it was called for, its argument, str() of
\* its result, and whether it raised instead of returning
Called(tool, kind, arg, out, raised) ==
    [tool |-> tool, kind |-> kind, arg |-> arg, out |-> out, raised |-> raised]

Message(role, text) == [role |-> role, content |-> text]

\* the state the script is in before any query is submitted: the page has
\* been loaded once, so the sidebar has set the environment variable
HandlerIdle ==
    /\ sessions = {1}
    /\ environ = DEFAULT_KB_ID
    /\ kb_id_input = [s \in sessions |-> DEFAULT_KB_ID]
    /\ agent_cache = {}
    /\ pc = [s \in sessions |-> "idle"]
    /\ query = [s \in sessions |-> ""]
    /\ action = [s \in sessions |-> ""]
    /\ kb_id = [s \in sessions |-> ""]
    /\ sub_action = [s \in sessions |-> ""]
    /\ result_str = [s \in sessions |-> ""]
    /\ content = [s \in sessions |-> ""]
    /\ calls = [s \in sessions |-> <<>>]
    /\ messages = [s \in sessions |-> <<>>]

Init == HandlerIdle /\ call = NoCall

\* the locals of a script run that has ended
ClearLocals(s) ==
    /\ query' = [query EXCEPT ![s] = ""]
    /\ action' = [action EXCEPT ![s] = ""]
    /\ kb_id' = [kb_id EXCEPT ![s] = ""]
    /\ sub_action' = [sub_action EXCEPT ![s] = ""]
    /\ result_str' = [result_str EXCEPT ![s] = ""]
    /\ content' = [content EXCEPT ![s] = ""]
    /\ calls' = [calls EXCEPT ![s] = <<>>]

\* the user edits the sidebar's Knowledge Base ID; the script reruns with no query
SetKbId(s, id) ==
    /\ pc[s] = "idle"
    /\ id # kb_id_input[s]
    /\ kb_id_input' = [kb_id_input EXCEPT ![s] = id]
    /\ environ' = IF id # "" /\ id # environ THEN id ELSE environ
    /\ UNCHANGED <<sessions, agent_cache, pc, query, action, kb_id, sub_action,
                   result_str, content, calls, messages, call>>

\* the user submits q: the sidebar runs, the user message is appended
Submit(s, q) ==
    /\ pc[s] = "idle"
    /\ Len(messages[s]) < 2 * MaxRequests
    /\ q # ""
    /\ environ' = EnvironAfterSidebar(s)
    /\ query' = [query EXCEPT ![s] = q]
    /\ messages' = [messages EXCEPT ![s] = Append(@, Message("user", q))]
    /\ pc' = [pc EXCEPT ![s] = "determine_action"]
    /\ UNCHANGED <<sessions, kb_id_input, agent_cache, action, kb_id, sub_action,
                   result_str, content, calls, call>>

\* an external call raised e: control passes to the handler's except clause
Raise(s, c, e) ==
    /\ calls' = [calls EXCEPT ![s] = Append(@, c)]
    /\ content' = [content EXCEPT ![s] = e]
    /\ pc' = [pc EXCEPT ![s] = "except"]

\* the route for the model's answer
RouteOf_contains(out) ==
    IF Contains(Strip(Lower(out)), "knowledgebase") THEN "knowledgebase" ELSE "teacher"

RouteOf(out) == IF Strip(Lower(out)) = "knowledgebase" THEN "knowledgebase" ELSE "teacher"

\* determine_action, the heuristic path
DetermineHeuristic(s) ==
    /\ pc[s] = "determine_action"
    /\ _looks_like_kb_query(PyStr(query[s]))
    /\ action' = [action EXCEPT ![s] = "knowledgebase"]
    /\ pc' = [pc EXCEPT ![s] = "route"]
    /\ UNCHANGED <<sessions, environ, kb_id_input, agent_cache, query, kb_id,
                   sub_action, result_str, content, calls, messages, call>>

\* determine_action, the model fallback: the model answers out
DetermineFallback(s, out) ==
    /\ pc[s] = "determine_action"
    /\ ~_looks_like_kb_query(PyStr(query[s]))
    /\ environ' = EnvironAfterGetAgent(get_current_kb_id, environ)
    /\ agent_cache' = CacheAfterGetAgent(get_current_kb_id)
    /\ calls' = [calls EXCEPT ![s] =
                   Append(@, Called("use_llm", "ACTION_SYSTEM_PROMPT",
                                    "Query: " \o query[s], out, FALSE))]
    /\ action' = [action EXCEPT ![s] = RouteOf(out)]
    /\ pc' = [pc EXCEPT ![s] = "route"]
    /\ UNCHANGED <<sessions, kb_id_input, query, kb_id, sub_action, result_str,
                   content, messages, call>>

\* determine_action, the model fallback: the model call raises e
DetermineRaise(s, e) ==
    /\ pc[s] = "determine_action"
    /\ ~_looks_like_kb_query(PyStr(query[s]))
    /\ environ' = EnvironAfterGetAgent(get_current_kb_id, environ)
    /\ agent_cache' = CacheAfterGetAgent(get_current_kb_id)
    /\ Raise(s, Called("use_llm", "ACTION_SYSTEM_PROMPT", "Query: " \o query[s], "", TRUE), e)
    /\ UNCHANGED <<sessions, kb_id_input, query, action, kb_id, sub_action,
                   result_str, messages, call>>

\* the response is ready: control passes to the lines that display it
Return(s, text) ==
    /\ content' = [content EXCEPT ![s] = text]
    /\ pc' = [pc EXCEPT ![s] = "respond"]

\* the teacher route: the teacher agent answers out
Teacher(s, out) ==
    /\ pc[s] = "route"
    /\ action[s] = "teacher"
    /\ calls' = [calls EXCEPT ![s] = Append(@, Called("teacher", "teacher", query[s], out, FALSE))]
    /\ Return(s, out)
    /\ UNCHANGED <<sessions, environ, kb_id_input, agent_cache, query, action, kb_id,
                   sub_action, result_str, messages, call>>

\* the teacher route: the teacher agent raises e
TeacherRaise(s, e) ==
    /\ pc[s] = "route"
    /\ action[s] = "teacher"
    /\ Raise(s, Called("teacher", "teacher", query[s], "", TRUE), e)
    /\ UNCHANGED <<sessions, environ, kb_id_input, agent_cache, query, action, kb_id,
                   sub_action, result_str, messages, call>>

NOT_CONFIGURED(id) ==
    "Knowledge base is not configured. Provide a valid alphanumeric Knowledge Base ID "
        \o "(no hyphens or special characters, got '" \o id \o "')."

\* run_kb_agent entered with another route than the else branch's
KbStart_anyRoute(s) ==
    /\ pc[s] = "route"
    /\ kb_id' = [kb_id EXCEPT ![s] = get_current_kb_id]
    /\ IF ~is_valid_kb_id(get_current_kb_id)
       THEN /\ Return(s, NOT_CONFIGURED(get_current_kb_id))
            /\ UNCHANGED <<environ, agent_cache>>
       ELSE /\ environ' = EnvironAfterGetAgent(get_current_kb_id, environ)
            /\ agent_cache' = CacheAfterGetAgent(get_current_kb_id)
            /\ pc' = [pc EXCEPT ![s] = "kb_classify"]
            /\ UNCHANGED content
    /\ UNCHANGED <<sessions, kb_id_input, query, action, sub_action, result_str,
                   calls, messages, call>>

\* the knowledgebase route: run_kb_agent reads and validates the ID, gets the agent
KbStart(s) ==
    /\ pc[s] = "route"
    /\ action[s] # "teacher"
    /\ kb_id' = [kb_id EXCEPT ![s] = get_current_kb_id]
    /\ IF ~is_valid_kb_id(get_current_kb_id)
       THEN /\ Return(s, NOT_CONFIGURED(get_current_kb_id))
            /\ UNCHANGED <<environ, agent_cache>>
       ELSE /\ environ' = EnvironAfterGetAgent(get_current_kb_id, environ)
            /\ agent_cache' = CacheAfterGetAgent(get_current_kb_id)
            /\ pc' = [pc EXCEPT ![s] = "kb_classify"]
            /\ UNCHANGED content
    /\ UNCHANGED <<sessions, kb_id_input, query, action, sub_action, result_str,
                   calls, messages, call>>

\* the store path is taken only for the answer "store" itself
KbClassify_exactStore(s, out) ==
    /\ pc[s] = "kb_classify"
    /\ calls' = [calls EXCEPT ![s] =
                   Append(@, Called("use_llm", "KB_ACTION_SYSTEM_PROMPT",
                                    "Query: " \o query[s], out, FALSE))]
    /\ sub_action' = [sub_action EXCEPT ![s] = Strip(Lower(out))]
    /\ pc' = [pc EXCEPT ![s] =
                IF Strip(Lower(out)) = "store" THEN "kb_store" ELSE "kb_retrieve"]
    /\ UNCHANGED <<sessions, environ, kb_id_input, agent_cache, query, action, kb_id,
                   result_str, content, messages, call>>

\* run_kb_agent: the model classifies the query as out
KbClassify(s, out) ==
    /\ pc[s] = "kb_classify"
    /\ calls' = [calls EXCEPT ![s] =
                   Append(@, Called("use_llm", "KB_ACTION_SYSTEM_PROMPT",
                                    "Query: " \o query[s], out, FALSE))]
    /\ sub_action' = [sub_action EXCEPT ![s] = Strip(Lower(out))]
    /\ pc' = [pc EXCEPT ![s] =
                IF Contains(Strip(Lower(out)), "store") THEN "kb_store" ELSE "kb_retrieve"]
    /\ UNCHANGED <<sessions, environ, kb_id_input, agent_cache, query, action, kb_id,
                   result_str, content, messages, call>>

\* run_kb_agent: the classification call raises e
KbClassifyRaise(s, e) ==
    /\ pc[s] = "kb_classify"
    /\ Raise(s, Called("use_llm", "KB_ACTION_SYSTEM_PROMPT", "Query: " \o query[s], "", TRUE), e)
    /\ UNCHANGED <<sessions, environ, kb_id_input, agent_cache, query, action, kb_id,
                   sub_action, result_str, messages, call>>

\* the content stored: the normalized text alone
StoreContent_normalizedOnly(q) == _normalize_store_content(PyStr(q))

\* the content stored: normalized or query
StoreContent(q) ==
    IF _normalize_store_content(PyStr(q)) # "" THEN _normalize_store_content(PyStr(q)) ELSE q

STORED == "I've stored this information."

\* run_kb_agent, store: the memory service answers out
KbStore(s, out) ==
    /\ pc[s] = "kb_store"
    /\ calls' = [calls EXCEPT ![s] =
                   Append(@, Called("memory", "store", StoreContent(query[s]), out, FALSE))]
    /\ Return(s, STORED)
    /\ UNCHANGED <<sessions, environ, kb_id_input, agent_cache, query, action, kb_id,
                   sub_action, result_str, messages, call>>

\* run_kb_agent, store: the memory call raises e
KbStoreRaise(s, e) ==
    /\ pc[s] = "kb_store"
    /\ Raise(s, Called("memory", "store", StoreContent(query[s]), "", TRUE), e)
    /\ UNCHANGED <<sessions, environ, kb_id_input, agent_cache, query, action, kb_id,
                   sub_action, result_str, messages, call>>

\* the response reports an error of the memory service
IsErrorResult(rs) ==
    \/ Contains(rs, "status': 'error'")
    \/ Contains(rs, "\"status\": \"error\"")
    \/ Contains(rs, "No knowledge base ID")

REQUEST_FAILED(id, rs) ==
    "Knowledge base request failed. Please verify the ID, region, and permissions. "
        \o "Current ID: " \o id \o ". Error: " \o rs

NO_MATCH ==
    "I don't have any stored information matching that yet. "
        \o "Try phrasing a fact to store first, e.g. 'Remember that my birthday is 12 Oct'."

NOTHING_EXTRACTED ==
    "I couldn't extract any relevant stored facts yet. Try storing it explicitly, e.g. 'Remember that my birthday is 12 Oct'."

\* the summarizer's prompt
SummaryPrompt(q, memories) ==
    "User question: \n" \o q \o "\n\n" \o "Relevant stored facts: \n- "
        \o Join("\n- ", memories)
        \o "\n\nAnswer succinctly based only on these facts. If unknown, say you don't have that info."

\* the entries are extracted first; "No results found" is looked for only
\* when there are none
RetrieveAnswer_extractFirst(q, id, rs) ==
    IF IsErrorResult(rs) THEN PyStr(REQUEST_FAILED(id, rs))
    ELSE IF ~_answer_from_memory(PyStr(q), _extract_memory_entries(rs)).none
    THEN _answer_from_memory(PyStr(q), _extract_memory_entries(rs))
    ELSE IF _extract_memory_entries(rs) # <<>> THEN PyNone
    ELSE IF Contains(rs, "No results found") THEN PyStr(NO_MATCH)
    ELSE PyStr(NOTHING_EXTRACTED)

\* "No results found" is looked for before the error indicators
RetrieveAnswer_noResultsFirst(q, id, rs) ==
    IF Contains(rs, "No results found") THEN PyStr(NO_MATCH)
    ELSE IF IsErrorResult(rs) THEN PyStr(REQUEST_FAILED(id, rs))
    ELSE IF ~_answer_from_memory(PyStr(q), _extract_memory_entries(rs)).none
    THEN _answer_from_memory(PyStr(q), _extract_memory_entries(rs))
    ELSE IF _extract_memory_entries(rs) # <<>> THEN PyNone
    ELSE PyStr(NOTHING_EXTRACTED)

\* the summarizer is called whenever there is no direct answer, entries or not
RetrieveAnswer_summarizeEmpty(q, id, rs) ==
    IF IsErrorResult(rs) THEN PyStr(REQUEST_FAILED(id, rs))
    ELSE IF Contains(rs, "No results found") THEN PyStr(NO_MATCH)
    ELSE _answer_from_memory(PyStr(q), _extract_memory_entries(rs))

\* the summarizer is called whenever entries were extracted, before a direct
\* answer is looked for
RetrieveAnswer_summarizeFirst(q, id, rs) ==
    IF IsErrorResult(rs) THEN PyStr(REQUEST_FAILED(id, rs))
    ELSE IF Contains(rs, "No results found") THEN PyStr(NO_MATCH)
    ELSE IF _extract_memory_entries(rs) # <<>> THEN PyNone
    ELSE PyStr(NOTHING_EXTRACTED)

\* what run_kb_agent returns after the retrieve call without calling the
\* summarizer; PyNone when it goes on to the summarizer
RetrieveAnswer(q, id, rs) ==
    IF IsErrorResult(rs) THEN PyStr(REQUEST_FAILED(id, rs))
    ELSE IF Contains(rs, "No results found") THEN PyStr(NO_MATCH)
    ELSE IF ~_answer_from_memory(PyStr(q), _extract_memory_entries(rs)).none
    THEN _answer_from_memory(PyStr(q), _extract_memory_entries(rs))
    ELSE IF _extract_memory_entries(rs) # <<>> THEN PyNone
    ELSE PyStr(NOTHING_EXTRACTED)

\* the query is stored before the facts are retrieved
KbRetrieve_storesQuery(s, out) ==
    /\ pc[s] = "kb_retrieve"
    /\ calls' = [calls EXCEPT ![s] =
                   @ \o << Called("memory", "store", StoreContent(query[s]), "", FALSE),
                           Called("memory", "retrieve", query[s], out, FALSE) >>]
    /\ result_str' = [result_str EXCEPT ![s] = out]
    /\ IF RetrieveAnswer(query[s], kb_id[s], out).none
       THEN /\ pc' = [pc EXCEPT ![s] = "kb_summarize"]
            /\ UNCHANGED content
       ELSE Return(s, RetrieveAnswer(query[s], kb_id[s], out).str)
    /\ UNCHANGED <<sessions, environ, kb_id_input, agent_cache, query, action, kb_id,
                   sub_action, messages, call>>

\* run_kb_agent, retrieve: the memory service answers out
KbRetrieve(s, out) ==
    /\ pc[s] = "kb_retrieve"
    /\ calls' = [calls EXCEPT ![s] = Append(@, Called("memory", "retrieve", query[s], out, FALSE))]
    /\ result_str' = [result_str EXCEPT ![s] = out]
    /\ IF RetrieveAnswer(query[s], kb_id[s], out).none
       THEN /\ pc' = [pc EXCEPT ![s] = "kb_summarize"]
            /\ UNCHANGED content
       ELSE Return(s, RetrieveAnswer(query[s], kb_id[s], out).str)
    /\ UNCHANGED <<sessions, environ, kb_id_input, agent_cache, query, action, kb_id,
                   sub_action, messages, call>>

\* the memory call raised e and is made again
KbRetrieveRaise_retry(s, e) ==
    /\ pc[s] = "kb_retrieve"
    /\ calls' = [calls EXCEPT ![s] =
                   Append(@, Called("memory", "retrieve", query[s], "", TRUE))]
    /\ UNCHANGED <<sessions, environ, kb_id_input, agent_cache, pc, query, action, kb_id,
                   sub_action, result_str, content, messages, call>>

\* run_kb_agent, retrieve: the memory call raises e
KbRetrieveRaise(s, e) ==
    /\ pc[s] = "kb_retrieve"
    /\ Raise(s, Called("memory", "retrieve", query[s], "", TRUE), e)
    /\ UNCHANGED <<sessions, environ, kb_id_input, agent_cache, query, action, kb_id,
                   sub_action, result_str, messages, call>>

\* run_kb_agent, retrieve: the model summarizes the entries as out
KbSummarize(s, out) ==
    /\ pc[s] = "kb_summarize"
    /\ calls' = [calls EXCEPT ![s] =
                   Append(@, Called("use_llm", "ANSWER_SYSTEM_PROMPT",
                                    SummaryPrompt(query[s], _extract_memory_entries(result_str[s])),
                                    out, FALSE))]
    /\ Return(s, out)
    /\ UNCHANGED <<sessions, environ, kb_id_input, agent_cache, query, action, kb_id,
                   sub_action, result_str, messages, call>>

\* run_kb_agent, retrieve: the summarization call raises e
KbSummarizeRaise(s, e) ==
    /\ pc[s] = "kb_summarize"
    /\ Raise(s, Called("use_llm", "ANSWER_SYSTEM_PROMPT",
                       SummaryPrompt(query[s], _extract_memory_entries(result_str[s])), "", TRUE), e)
    /\ UNCHANGED <<sessions, environ, kb_id_input, agent_cache, query, action, kb_id,
                   sub_action, result_str, messages, call>>

\* the response is displayed and appended to the history; the script run ends
Respond(s) ==
    /\ pc[s] = "respond"
    /\ messages' = [messages EXCEPT ![s] = Append(@, Message("assistant", content[s]))]
    /\ pc' = [pc EXCEPT ![s] = "idle"]
    /\ ClearLocals(s)
    /\ UNCHANGED <<sessions, environ, kb_id_input, agent_cache, call>>

\* the except clause displays the error message without appending it
Except_notAppended(s) ==
    /\ pc[s] = "except"
    /\ pc' = [pc EXCEPT ![s] = "idle"]
    /\ ClearLocals(s)
    /\ UNCHANGED <<sessions, environ, kb_id_input, agent_cache, messages, call>>

\* the except clause replaces the history by the error message
Except_onlyError(s) ==
    /\ pc[s] = "except"
    /\ messages' = [messages EXCEPT ![s] =
                      << Message("assistant", "An error occurred: " \o content[s]) >>]
    /\ pc' = [pc EXCEPT ![s] = "idle"]
    /\ ClearLocals(s)
    /\ UNCHANGED <<sessions, environ, kb_id_input, agent_cache, call>>

\* the except clause: the error message is displayed and appended
Except(s) ==
    /\ pc[s] = "except"
    /\ messages' = [messages EXCEPT ![s] =
                      Append(@, Message("assistant", "An error occurred: " \o content[s]))]
    /\ pc' = [pc EXCEPT ![s] = "idle"]
    /\ ClearLocals(s)
    /\ UNCHANGED <<sessions, environ, kb_id_input, agent_cache, call>>

Next ==
    \E s \in sessions :
        \/ \E id \in KbIds : SetKbId(s, id)
        \/ \E q \in Utterances : Submit(s, q)
        \/ DetermineHeuristic(s)
        \/ \E out \in RouteOutputs : DetermineFallback(s, out)
        \/ \E e \in Errors : DetermineRaise(s, e)
        \/ \E out \in TeacherOutputs : Teacher(s, out)
        \/ \E e \in Errors : TeacherRaise(s, e)
        \/ KbStart(s)
        \/ \E out \in ActionOutputs : KbClassify(s, out)
        \/ \E e \in Errors : KbClassifyRaise(s, e)
        \/ \E out \in StoreOutputs : KbStore(s, out)
        \/ \E e \in Errors : KbStoreRaise(s, e)
        \/ \E out \in RetrieveOutputs : KbRetrieve(s, out)
        \/ \E e \in Errors : KbRetrieveRaise(s, e)
        \/ \E out \in SummaryOutputs : KbSummarize(s, out)
        \/ \E e \in Errors : KbSummarizeRaise(s, e)
        \/ Respond(s)
        \/ Except(s)

Spec == Init /\ [][Next]_vars

-----------------------------------------------------------------------------
(* Two browser sessions of one Streamlit process: os.environ and the
   st.cache_resource cache are the process's, the widgets, the history and
   the script run are each session's *)

\* IDs typed into the two sidebars
SessionKbIds == {DEFAULT_KB_ID, "teamkb4567", "kb1"}

SessionUtterances == {"Remember that my birthday is 12 Oct", "what is 2+2"}

SessionRouteOutputs == {"teacher", "knowledgebase"}

SessionActionOutputs == {"store", "retrieve"}

SessionStoreOutputs == {"{'status': 'success'}"}

SessionRetrieveOutputs ==
    {"Content Preview: I like tea", "{'status': 'error', 'content': 'denied'}"}

InitSessions ==
    /\ sessions = {1, 2}
    /\ environ = DEFAULT_KB_ID
    /\ kb_id_input = [s \in sessions |-> DEFAULT_KB_ID]
    /\ agent_cache = {}
    /\ pc = [s \in sessions |-> "idle"]
    /\ query = [s \in sessions |-> ""]
    /\ action = [s \in sessions |-> ""]
    /\ kb_id = [s \in sessions |-> ""]
    /\ sub_action = [s \in sessions |-> ""]
    /\ result_str = [s \in sessions |-> ""]
    /\ content = [s \in sessions |-> ""]
    /\ calls = [s \in sessions |-> <<>>]
    /\ messages = [s \in sessions |-> <<>>]
    /\ call = NoCall

\* each session edits its sidebar at will and submits one query; the script
\* runs of the two sessions interleave at their external calls
NextSessions ==
    \E s \in sessions :
        \/ \E id \in SessionKbIds : SetKbId(s, id)
        \/ \E q \in SessionUtterances : messages[s] = <<>> /\ Submit(s, q)
        \/ DetermineHeuristic(s)
        \/ \E out \in SessionRouteOutputs : DetermineFallback(s, out)
        \/ \E e \in Errors : DetermineRaise(s, e)
        \/ \E out \in TeacherOutputs : Teacher(s, out)
        \/ \E e \in Errors : TeacherRaise(s, e)
        \/ KbStart(s)
        \/ \E out \in SessionActionOutputs : KbClassify(s, out)
        \/ \E e \in Errors : KbClassifyRaise(s, e)
        \/ \E out \in SessionStoreOutputs : KbStore(s, out)
        \/ \E e \in Errors : KbStoreRaise(s, e)
        \/ \E out \in SessionRetrieveOutputs : KbRetrieve(s, out)
        \/ \E e \in Errors : KbRetrieveRaise(s, e)
        \/ \E out \in SummaryOutputs : KbSummarize(s, out)
        \/ \E e \in Errors : KbSummarizeRaise(s, e)
        \/ Respond(s)
        \/ Except(s)

SpecSessions == InitSessions /\ [][NextSessions]_vars

-----------------------------------------------------------------------------
(* determine_action, called on its own *)

MaxPhrases == 2   \* phrases of an utterance given to determine_action

Phrases ==
    {"Remember", "store", "SAVE", "record", "note that", "What did I tell",
     "what do you remember", "recall", "Retrieve", "My name is", "I live",
     "my birthday", "where do I live", "who am i",
     "note", "that", " ", "what is 2+2", "my name", "knowledgebase"}

DetermineInputs == Words(Phrases, MaxPhrases) \ {""}

\* a query has been submitted and determine_action is about to run
InitDetermine ==
    /\ call = NoCall
    /\ sessions = {1}
    /\ environ = DEFAULT_KB_ID
    /\ kb_id_input = [s \in sessions |-> DEFAULT_KB_ID]
    /\ agent_cache = {}
    /\ pc = [s \in sessions |-> "determine_action"]
    /\ query \in [sessions -> DetermineInputs]
    /\ action = [s \in sessions |-> ""]
    /\ kb_id = [s \in sessions |-> ""]
    /\ sub_action = [s \in sessions |-> ""]
    /\ result_str = [s \in sessions |-> ""]
    /\ content = [s \in sessions |-> ""]
    /\ calls = [s \in sessions |-> <<>>]
    /\ messages = [s \in sessions |-> << Message("user", query[s]) >>]

NextDetermine ==
    \E s \in sessions :
        \/ DetermineHeuristic(s)
        \/ \E out \in RouteOutputs : DetermineFallback(s, out)
        \/ \E e \in Errors : DetermineRaise(s, e)

SpecDetermine == InitDetermine /\ [][NextDetermine]_vars

-----------------------------------------------------------------------------
(* The helper functions, each called on its own *)

InitNormalize ==
    /\ HandlerIdle
    /\ call \in {[fn |-> "_normalize_store_content", raw |-> r, done |-> FALSE, ret |-> ""] :
                   r \in NormalizeInputs}

CallNormalize ==
    /\ call.fn = "_normalize_store_content"
    /\ ~call.done
    /\ call' = [call EXCEPT !.done = TRUE, !.ret = _normalize_store_content(call.raw)]
    /\ UNCHANGED handlerVars

SpecNormalize == InitNormalize /\ [][CallNormalize]_vars

InitExtract ==
    /\ HandlerIdle
    /\ call \in {[fn |-> "_extract_memory_entries", lines |-> r.lines,
                  raw_results |-> r.raw, done |-> FALSE, ret |-> <<>>] :
                   r \in ExtractInputs}

CallExtract ==
    /\ call.fn = "_extract_memory_entries"
    /\ ~call.done
    /\ call' = [call EXCEPT !.done = TRUE,
                            !.ret = _extract_memory_entries(call.raw_results)]
    /\ UNCHANGED handlerVars

SpecExtract == InitExtract /\ [][CallExtract]_vars

\* _extract_memory_entries called twice on one text, a request of the session
\* running in between: n counts the calls, first is what the first returned
InitExtractAgain ==
    /\ HandlerIdle
    /\ call \in {[fn |-> "_extract_memory_entries", raw_results |-> Join("\n", ls),
                  n |-> 0, first |-> <<>>, ret |-> <<>>] :
                   ls \in SeqsUpTo(ResultLines, MaxLines)}

CallExtractAgain ==
    /\ call.n < 2
    /\ call.n = 0 => \A s \in sessions : pc[s] = "idle" /\ messages[s] = <<>>
    /\ call' = [call EXCEPT !.n = @ + 1,
                            !.first = IF call.n = 0
                                      THEN _extract_memory_entries(call.raw_results)
                                      ELSE @,
                            !.ret = _extract_memory_entries(call.raw_results)]
    /\ UNCHANGED handlerVars

\* the request in between: a question answered from the knowledge base
RequestBetween ==
    /\ call.n = 1
    /\ \E s \in sessions :
          \/ messages[s] = <<>> /\ Submit(s, "Remember that my birthday is 12 Oct")
          \/ DetermineHeuristic(s)
          \/ KbStart(s)
          \/ KbClassify(s, "retrieve")
          \/ KbRetrieve(s, "Content Preview: I like tea")
          \/ KbSummarize(s, "You like tea.")
          \/ Respond(s)

NextExtractAgain == CallExtractAgain \/ RequestBetween

SpecExtractAgain == InitExtractAgain /\ [][NextExtractAgain]_vars

InitAnswer ==
    /\ HandlerIdle
    /\ call \in {[fn |-> "_answer_from_memory", query |-> a[1], memories |-> a[2],
                  done |-> FALSE, ret |-> PyNone] : a \in AnswerInputs}

CallAnswer ==
    /\ call.fn = "_answer_from_memory"
    /\ ~call.done
    /\ call' = [call EXCEPT !.done = TRUE,
                            !.ret = _answer_from_memory(call.query, call.memories)]
    /\ UNCHANGED handlerVars

SpecAnswer == InitAnswer /\ [][CallAnswer]_vars

-----------------------------------------------------------------------------
(* JSON values, as vtb-agents/hotel_helpers.py and
   vtb-agents/external_hotel_data_agent.py receive them from response.json():
   t is the Python type, s the text of a str or of a number, m the members
   of a dict (key and value, in insertion order) or of a list (value only) *)

JNull == [t |-> "none", s |-> "", m |-> <<>>]

JStr(x) == [t |-> "str", s |-> x, m |-> <<>>]

JNum(x) == [t |-> "num", s |-> x, m |-> <<>>]

Pair(k, v) == [k |-> k, v |-> v]

JDict(pairs) == [t |-> "dict", s |-> "", m |-> pairs]

JList(elems) == [t |-> "list", s |-> "", m |-> [i \in 1..Len(elems) |-> Pair("", elems[i])]]

\* isinstance(v, dict), isinstance(v, list), isinstance(v, str)
IsDict(v) == v.t = "dict"

IsList(v) == v.t = "list"

IsStr(v) == v.t = "str"

\* the elements of a list
Elements(v) == [i \in 1..Len(v.m) |-> v.m[i].v]

\* d.get(k): None when the key is absent
Get(d, k) ==
    IF \E i \in 1..Len(d.m) : d.m[i].k = k
    THEN d.m[CHOOSE i \in 1..Len(d.m) : d.m[i].k = k].v
    ELSE JNull

\* bool(v)
Truthy(v) ==
    CASE v.t = "none" -> FALSE
      [] v.t = "str" -> v.s # ""
      [] v.t = "num" -> v.s \notin {"0", "0.0"}
      [] OTHER -> v.m # <<>>

\* a or b
Or(a, b) == IF Truthy(a) THEN a ELSE b

\* the text is a decimal number: digits with at most one point
IsNumeric(x) ==
    /\ \E i \in 1..Len(x) : Contains(DIGITS, Char(x, i))
    /\ \A i \in 1..Len(x) : Contains(DIGITS, Char(x, i)) \/ Char(x, i) = "."
    /\ Cardinality(Occurrences(x, ".")) <= 1

\* float(v) inside try / except Exception: None for None and for a value
\* float() rejects
FloatOrNone(v) ==
    CASE v.t = "num" -> v
      [] v.t = "str" /\ IsNumeric(Strip(v.s)) -> JNum(Strip(v.s))
      [] OTHER -> JNull

\* json.dumps(v, ensure_ascii=False) and str(v)
RECURSIVE Dumps(_), DumpsMembers(_, _), StrOf(_), StrOfMembers(_, _)
DumpsMembers(v, i) ==
    IF i > Len(v.m) THEN ""
    ELSE (IF i > 1 THEN ", " ELSE "")
            \o (IF IsDict(v) THEN "\"" \o v.m[i].k \o "\": " ELSE "")
            \o Dumps(v.m[i].v) \o DumpsMembers(v, i + 1)

Dumps(v) ==
    CASE v.t = "none" -> "null"
      [] v.t = "str" -> "\"" \o v.s \o "\""
      [] v.t = "num" -> v.s
      [] v.t = "dict" -> "{" \o DumpsMembers(v, 1) \o "}"
      [] OTHER -> "[" \o DumpsMembers(v, 1) \o "]"

StrOfMembers(v, i) ==
    IF i > Len(v.m) THEN ""
    ELSE (IF i > 1 THEN ", " ELSE "")
            \o (IF IsDict(v) THEN "'" \o v.m[i].k \o "': " ELSE "")
            \o (IF IsStr(v.m[i].v) THEN "'" \o v.m[i].v.s \o "'" ELSE StrOf(v.m[i].v))
            \o StrOfMembers(v, i + 1)

StrOf(v) ==
    CASE v.t = "none" -> "None"
      [] v.t = "str" -> v.s
      [] v.t = "num" -> v.s
      [] v.t = "dict" -> "{" \o StrOfMembers(v, 1) \o "}"
      [] OTHER -> "[" \o StrOfMembers(v, 1) \o "]"

-----------------------------------------------------------------------------
(* vtb-agents/hotel_helpers.py *)

extract_hotel_tuple(item) ==
    LET name == Or(Or(Get(item, "name"), Get(item, "hotel_name")), Get(item, "title"))
        hotel_id == Or(Or(Get(item, "hotel_id"), Get(item, "id")), Get(item, "hotelId"))
        location == Or(Get(item, "location"), JDict(<<>>))
        from == IF IsDict(location) THEN location ELSE item
        lat == Or(Get(from, "lat"), Get(from, "latitude"))
        lon == Or(Or(Get(from, "lon"), Get(from, "lng")), Get(from, "longitude"))
    IN [name |-> IF IsStr(name) THEN name ELSE JNull,
        hotel_id |-> IF IsStr(hotel_id) \/ hotel_id = JNull THEN hotel_id
                     ELSE JStr(StrOf(hotel_id)),
        lat |-> FloatOrNone(lat),
        lon |-> FloatOrNone(lon)]

\* str.split(): the runs of non-whitespace characters
RECURSIVE Split(_)
Split(s) ==
    LET t == LStrip(s)
        spaces == {i \in 1..Len(t) : IsSpace(Char(t, i))}
    IN IF t = "" THEN <<>>
       ELSE IF spaces = {} THEN << t >>
       ELSE << SubSeq(t, 1, Min(spaces) - 1) >> \o Split(SubSeq(t, Min(spaces), Len(t)))

\* value is a str or None
normalize_name(value) ==
    IF ~Truthy(value) THEN "" ELSE Join(" ", Split(Strip(Lower(value.s))))

\* the matching blocks of a and b: start in a, start in b, length
MatchingBlocks(a, b) ==
    {blk \in (1..Len(a)) \X (1..Len(b)) \X (1..Len(a)) :
        /\ blk[1] + blk[3] - 1 <= Len(a)
        /\ blk[2] + blk[3] - 1 <= Len(b)
        /\ SubSeq(a, blk[1], blk[1] + blk[3] - 1) = SubSeq(b, blk[2], blk[2] + blk[3] - 1)}

\* SequenceMatcher.find_longest_match: the longest block, of those the one
\* starting earliest in a, of those the one starting earliest in b
LongestMatch(a, b) ==
    CHOOSE blk \in MatchingBlocks(a, b) :
        \A o \in MatchingBlocks(a, b) :
            \/ blk[3] > o[3]
            \/ blk[3] = o[3] /\ blk[1] < o[1]
            \/ blk[3] = o[3] /\ blk[1] = o[1] /\ blk[2] <= o[2]

\* the characters SequenceMatcher.get_matching_blocks matches: the longest
\* match, then the same to its left and to its right
RECURSIVE MatchingChars(_, _)
MatchingChars(a, b) ==
    IF a = "" \/ b = "" \/ MatchingBlocks(a, b) = {} THEN 0
    ELSE LET blk == LongestMatch(a, b)
             i == blk[1]
             j == blk[2]
             k == blk[3]
         IN k + (IF i > 1 /\ j > 1
                 THEN MatchingChars(SubSeq(a, 1, i - 1), SubSeq(b, 1, j - 1)) ELSE 0)
              + (IF i + k <= Len(a) /\ j + k <= Len(b)
                 THEN MatchingChars(SubSeq(a, i + k, Len(a)), SubSeq(b, j + k, Len(b)))
                 ELSE 0)

\* a score is the fraction m / t; SequenceMatcher.ratio() is 2.0 * M / T
Score(m, t) == [m |-> m, t |-> t]

Greater(a, b) == a.m * b.t > b.m * a.t

\* term is a str, candidate a str
score_name_match(term, candidate) ==
    LET term_norm == normalize_name(term)
        cand_norm == normalize_name(candidate)
    IN IF term_norm = "" \/ cand_norm = "" THEN Score(0, 1)
       ELSE Score(2 * MatchingChars(term_norm, cand_norm), Len(term_norm) + Len(cand_norm))

\* [i for i in v if isinstance(i, dict)]
DictsOf(v) == SelectSeq(Elements(v), IsDict)

CONTAINER_KEYS == << "data", "results", "items", "hotels", "accommodations" >>

\* the first container key that is present decides, list or not
flatten_candidates_firstPresent(container) ==
    IF IsList(container) THEN DictsOf(container)
    ELSE IF IsDict(container)
              /\ \E i \in 1..Len(CONTAINER_KEYS) : Get(container, CONTAINER_KEYS[i]) # JNull
    THEN LET i == Min({j \in 1..Len(CONTAINER_KEYS) :
                          Get(container, CONTAINER_KEYS[j]) # JNull})
         IN IF IsList(Get(container, CONTAINER_KEYS[i]))
            THEN DictsOf(Get(container, CONTAINER_KEYS[i]))
            ELSE <<>>
    ELSE <<>>

flatten_candidates(container) ==
    IF IsList(container) THEN DictsOf(container)
    ELSE IF IsDict(container)
              /\ \E i \in 1..Len(CONTAINER_KEYS) : IsList(Get(container, CONTAINER_KEYS[i]))
    THEN DictsOf(Get(container,
                     CONTAINER_KEYS[Min({i \in 1..Len(CONTAINER_KEYS) :
                                           IsList(Get(container, CONTAINER_KEYS[i]))})]))
    ELSE <<>>

\* needle in json.dumps(hay, ensure_ascii=False)
string_contains(hay, needle) == Contains(Dumps(hay), needle)

-----------------------------------------------------------------------------
(* The functions of hotel_helpers.py, each called on its own *)

\* the fields of a property besides its location: a name or none, and the
\* coordinates under one of their top-level names or none
NameFields == {<<>>, << Pair("name", JStr("Grand Hotel")) >>}

LatFields ==
    {<<>>, << Pair("lat", JNum("48.8")) >>, << Pair("latitude", JStr("48.8")) >>,
     << Pair("lat", JStr("abc")), Pair("latitude", JNum("48.8")) >>}

LonFields ==
    {<<>>, << Pair("lon", JNum("2.3")) >>, << Pair("lng", JStr(" 2.3 ")) >>}

Locations ==
    {<<>>,
     << Pair("location", JNull) >>,
     << Pair("location", JStr("Paris")) >>,
     << Pair("location", JDict(<<>>)) >>,
     << Pair("location", JDict(<< Pair("lat", JNum("1.5")), Pair("lon", JNum("2")) >>)) >>,
     << Pair("location", JDict(<< Pair("latitude", JStr("1.5")),
                                  Pair("longitude", JNum("2")) >>)) >>,
     << Pair("location", JDict(<< Pair("lat", JNum("0")), Pair("lng", JNum("0")) >>)) >>}

HotelItems ==
    {JDict(n \o la \o lo \o loc) :
        n \in NameFields, la \in LatFields, lo \in LonFields, loc \in Locations}

InitHotelTuple ==
    /\ HandlerIdle
    /\ call \in {[fn |-> "extract_hotel_tuple", item |-> i, done |-> FALSE,
                  ret |-> [name |-> JNull, hotel_id |-> JNull, lat |-> JNull, lon |-> JNull]] :
                   i \in HotelItems}

CallHotelTuple ==
    /\ call.fn = "extract_hotel_tuple"
    /\ ~call.done
    /\ call' = [call EXCEPT !.done = TRUE, !.ret = extract_hotel_tuple(call.item)]
    /\ UNCHANGED handlerVars

SpecHotelTuple == InitHotelTuple /\ [][CallHotelTuple]_vars

MaxElements == 2   \* elements of a list given to flatten_candidates

\* what a response list holds: objects and other values
ListElements ==
    {JDict(<<>>), JDict(<< Pair("id", JNum("42")) >>),
     JDict(<< Pair("hotel_id", JStr("7")), Pair("currency", JStr("EUR")) >>),
     JStr("x"), JNull, JList(<< JDict(<<>>) >>)}

\* what a response object holds under a key
MemberValues ==
    {JList(<<>>),
     JList(<< JDict(<< Pair("id", JNum("42")) >>), JStr("x"), JDict(<<>>) >>),
     JList(<< JNum("1") >>),
     JStr("none"), JNull,
     JDict(<< Pair("data", JList(<< JDict(<<>>) >>)) >>)}

MemberKeys == {"data", "results", "items", "hotels", "accommodations", "properties"}

\* the responses: lists, objects of up to two members, and other values
Containers ==
    {JList(l) : l \in SeqsUpTo(ListElements, MaxElements)}
        \cup {JDict(<< Pair(k, v) >>) : k \in MemberKeys, v \in MemberValues}
        \cup {JDict(<< Pair(ks[1], v1), Pair(ks[2], v2) >>) :
                 ks \in {x \in MemberKeys \X MemberKeys : x[1] # x[2]},
                 v1 \in MemberValues, v2 \in MemberValues}
        \cup {JDict(<<>>), JNull, JStr("data"), JNum("3")}

InitFlatten ==
    /\ HandlerIdle
    /\ call \in {[fn |-> "flatten_candidates", container |-> c, done |-> FALSE,
                  ret |-> <<>>] : c \in Containers}

CallFlatten ==
    /\ call.fn = "flatten_candidates"
    /\ ~call.done
    /\ call' = [call EXCEPT !.done = TRUE, !.ret = flatten_candidates(call.container)]
    /\ UNCHANGED handlerVars

SpecFlatten == InitFlatten /\ [][CallFlatten]_vars

-----------------------------------------------------------------------------
(* vtb-agents/external_hotel_data_agent.py: airtrotter_hotel_availability_tool *)

UpperOf == [c \in {Char(LOWERCASE, i) : i \in 1..Len(LOWERCASE)} |->
              Char(UPPERCASE, CHOOSE i \in 1..Len(LOWERCASE) : Char(LOWERCASE, i) = c)]

UpperChar(c) == IF c \in DOMAIN UpperOf THEN UpperOf[c] ELSE c

\* str.upper(), character by character
RECURSIVE Upper(_)
Upper(s) ==
    IF s = "" THEN ""
    ELSE IF Len(s) = 1 THEN UpperChar(s)
    ELSE Upper(SubSeq(s, 1, Len(s) \div 2)) \o Upper(SubSeq(s, Len(s) \div 2 + 1, Len(s)))

matches_hotel(item, hotel_id) ==
    \/ ~Truthy(hotel_id)
    \/ LET iid == Or(Or(Get(item, "hotel_id"), Get(item, "id")), Get(item, "hotelId"))
       IN StrOf(iid) = StrOf(hotel_id)

matches_block(item, block_id) ==
    \/ ~Truthy(block_id)
    \/ string_contains(item, StrOf(block_id))

CURRENCY_KEYS == << "currency", "price_currency", "purchaseCurrency" >>

matches_currency(item, currency) ==
    \/ ~Truthy(currency)
    \/ \E i \in 1..Len(CURRENCY_KEYS) :
          LET val == Get(item, CURRENCY_KEYS[i])
          IN IsStr(val) /\ Upper(val.s) = Upper(currency.s)
    \/ string_contains(item, StrOf(currency))

\* the arguments the tool is called with: each filter a str or None
HotelIdArgs == {JNull, JStr(""), JStr("42"), JStr("None")}

BlockIdArgs == {JNull, JStr("B7")}

CurrencyArgs == {JNull, JStr("eur")}

\* what the availability service lists
AvailabilityItems ==
    {JDict(<<>>),
     JDict(<< Pair("id", JNum("42")) >>),
     JDict(<< Pair("hotel_id", JNum("0")), Pair("id", JNum("42")), Pair("block", JStr("B7")) >>),
     JDict(<< Pair("hotelId", JStr("42")), Pair("currency", JStr("EUR")) >>),
     JDict(<< Pair("hotel_id", JStr("7")), Pair("price_currency", JStr("USD")),
              Pair("blocks", JList(<< JStr("B7") >>)) >>),
     JDict(<< Pair("name", JStr("None")), Pair("note", JStr("paid in eur")) >>),
     JStr("x")}

AvailabilityResponses ==
    {JDict(<< Pair("data", JList(l)) >>) : l \in SeqsUpTo(AvailabilityItems, MaxElements)}
        \cup {JList(<< JDict(<< Pair("id", JNum("42")) >>), JDict(<<>>) >>),
              JDict(<< Pair("error", JStr("no rooms")) >>)}

InitAvailabilityTool ==
    /\ HandlerIdle
    /\ call \in {[fn |-> "airtrotter_hotel_availability_tool", api_key |-> key,
                  hotel_id |-> h, block_id |-> b, currency |-> c,
                  requests |-> 0, done |-> FALSE, raised |-> "",
                  raw |-> JNull, filtered |-> <<>>] :
                   key \in BOOLEAN, h \in HotelIdArgs, b \in BlockIdArgs, c \in CurrencyArgs}

\* AIRTROTTER_API_KEY is not set
AvailabilityToolNoKey ==
    /\ call.fn = "airtrotter_hotel_availability_tool"
    /\ ~call.done
    /\ ~call.api_key
    /\ call' = [call EXCEPT !.done = TRUE, !.raised = "RuntimeError"]
    /\ UNCHANGED handlerVars

\* requests.get or raise_for_status raises
AvailabilityToolHttpError ==
    /\ call.fn = "airtrotter_hotel_availability_tool"
    /\ ~call.done
    /\ call.api_key
    /\ call' = [call EXCEPT !.done = TRUE, !.requests = @ + 1, !.raised = "HTTPError"]
    /\ UNCHANGED handlerVars

airtrotter_hotel_availability_tool(raw) ==
    /\ call.fn = "airtrotter_hotel_availability_tool"
    /\ ~call.done
    /\ call.api_key
    /\ LET candidates == flatten_candidates(raw)
           keep(i) == /\ matches_hotel(i, call.hotel_id)
                      /\ matches_block(i, call.block_id)
                      /\ matches_currency(i, call.currency)
       IN call' = [call EXCEPT !.done = TRUE, !.requests = @ + 1, !.raw = raw,
                               !.filtered = SelectSeq(candidates, keep)]
    /\ UNCHANGED handlerVars

NextAvailabilityTool ==
    \/ AvailabilityToolNoKey
    \/ AvailabilityToolHttpError
    \/ \E raw \in AvailabilityResponses : airtrotter_hotel_availability_tool(raw)

SpecAvailabilityTool == InitAvailabilityTool /\ [][NextAvailabilityTool]_vars

-----------------------------------------------------------------------------
(* vtb-agents/external_hotel_data_agent.py:
   external_hotel_best_match_availability *)

SEARCH_KEYS == << "data", "results", "items", "properties" >>

SEARCH_LIMIT == 25

\* what search_airtrotter returns for the response data
search_airtrotter(data, limit) ==
    LET items ==
            IF IsList(data) THEN DictsOf(data)
            ELSE IF IsDict(data)
                      /\ \E i \in 1..Len(SEARCH_KEYS) : IsList(Get(data, SEARCH_KEYS[i]))
            THEN DictsOf(Get(data,
                             SEARCH_KEYS[Min({i \in 1..Len(SEARCH_KEYS) :
                                                IsList(Get(data, SEARCH_KEYS[i]))})]))
            ELSE <<>>
    IN IF limit > 0 /\ Len(items) > limit THEN SubSeq(items, 1, limit) ELSE items

\* the loop of _select_best_match from item i on
RECURSIVE SelectFrom(_, _, _, _, _)
SelectFrom(results, search_term, i, best_item, best_score) ==
    IF i > Len(results) THEN best_item
    ELSE LET name == extract_hotel_tuple(results[i]).name
             score == score_name_match(search_term, Or(name, JStr("")))
         IN IF Greater(score, best_score)
            THEN SelectFrom(results, search_term, i + 1, results[i], score)
            ELSE SelectFrom(results, search_term, i + 1, best_item, best_score)

_select_best_match(results, search_term) ==
    SelectFrom(results, search_term, 1, JNull, Score(-1, 1))

SearchTerms == {JStr("Grand Hotel"), JStr("hotel paris"), JStr("")}

\* the properties the search service lists
SearchItems ==
    {JDict(<<>>),
     JDict(<< Pair("name", JStr("Grand Hotel")) >>),
     JDict(<< Pair("name", JStr("Hotel")), Pair("id", JNum("42")),
              Pair("location", JDict(<< Pair("lat", JNum("48.8")),
                                        Pair("lon", JNum("2.3")) >>)) >>),
     JDict(<< Pair("title", JStr(" GRAND  hotel Paris")),
              Pair("location", JDict(<< Pair("latitude", JStr("1.5")),
                                        Pair("lng", JNum("2")) >>)) >>),
     JDict(<< Pair("name", JStr("zzz")),
              Pair("location", JDict(<< Pair("lat", JNum("1.5")) >>)) >>),
     JStr("x")}

SearchResponses ==
    {JList(l) : l \in SeqsUpTo(SearchItems, MaxElements)}
        \cup {JDict(<< Pair("properties", JList(l)) >>) : l \in SeqsUpTo(SearchItems, 1)}
        \cup {JDict(<< Pair("hotels", JList(<< JDict(<< Pair("name", JStr("Hotel")) >>) >>)) >>)}

CityResponses == {JDict(<< Pair("data", JList(<< JDict(<< Pair("id", JNum("42")) >>) >>)) >>),
                  JList(<<>>)}

InitBestMatch ==
    /\ HandlerIdle
    /\ call \in {[fn |-> "external_hotel_best_match_availability", search_term |-> t,
                  at |-> "search", requests |-> <<>>, raised |-> "",
                  results |-> <<>>, best |-> JNull,
                  best_match |-> JNull, availability |-> JNull] : t \in SearchTerms}

\* search_airtrotter raises: no API key, or requests.get / raise_for_status
\* fails
BestMatchSearchRaise ==
    /\ call.fn = "external_hotel_best_match_availability"
    /\ call.at = "search"
    /\ \E e \in {"RuntimeError", "HTTPError"} :
          call' = [call EXCEPT !.at = "done", !.raised = e,
                               !.requests = IF e = "HTTPError"
                                            THEN Append(@, "searchProperties") ELSE @]
    /\ UNCHANGED handlerVars

\* lines 260-267: the search, the selection, and the two early returns
BestMatchSearch(data) ==
    /\ call.fn = "external_hotel_best_match_availability"
    /\ call.at = "search"
    /\ LET results == search_airtrotter(data, SEARCH_LIMIT)
           best == _select_best_match(results, call.search_term)
           called == [call EXCEPT !.requests = Append(@, "searchProperties"),
                                  !.results = results, !.best = best]
       IN call' = IF ~Truthy(best)
                  THEN [called EXCEPT !.at = "done"]
                  ELSE IF extract_hotel_tuple(best).lat = JNull
                            \/ extract_hotel_tuple(best).lon = JNull
                  THEN [called EXCEPT !.at = "done", !.best_match = best]
                  ELSE [called EXCEPT !.at = "availability"]
    /\ UNCHANGED handlerVars

\* _availability_by_city raises
BestMatchAvailabilityRaise ==
    /\ call.fn = "external_hotel_best_match_availability"
    /\ call.at = "availability"
    /\ call' = [call EXCEPT !.at = "done", !.raised = "HTTPError",
                            !.requests = Append(@, "hotelAvailabilityByCity")]
    /\ UNCHANGED handlerVars

\* lines 269-290: the availability request and the return
BestMatchAvailability(raw) ==
    /\ call.fn = "external_hotel_best_match_availability"
    /\ call.at = "availability"
    /\ LET t == extract_hotel_tuple(call.best)
       IN call' = [call EXCEPT !.at = "done",
                               !.requests = Append(@, "hotelAvailabilityByCity"),
                               !.best_match = JDict(<< Pair("name", t.name),
                                                       Pair("hotel_id", t.hotel_id),
                                                       Pair("latitude", t.lat),
                                                       Pair("longitude", t.lon),
                                                       Pair("raw", call.best) >>),
                               !.availability = raw]
    /\ UNCHANGED handlerVars

NextBestMatch ==
    \/ BestMatchSearchRaise
    \/ \E data \in SearchResponses : BestMatchSearch(data)
    \/ BestMatchAvailabilityRaise
    \/ \E raw \in CityResponses : BestMatchAvailability(raw)

SpecBestMatch == InitBestMatch /\ [][NextBestMatch]_vars

-----------------------------------------------------------------------------
(* module4/agents_workflow.py: run_research_workflow *)

UserInputs == {"Thomas Edison invented the light bulb", "Tuesday comes before Monday"}

ResearcherOutputs == {"Edison patented a bulb in 1879 (https://example.org)", "No sources found", ""}

AnalystOutputs == {"Accuracy 3/5: Swan and others came first", "Accuracy 1/5", ""}

WriterOutputs == {"# Report\nPartly true.", "False.", ""}

InitWorkflow ==
    /\ HandlerIdle
    /\ call \in {[fn |-> "run_research_workflow", user_input |-> u, at |-> "researcher",
                  invoked |-> <<>>, research_findings |-> "", analysis |-> "",
                  final_report |-> "", visual |-> "", raised |-> "",
                  ret |-> [none |-> TRUE, str |-> ""]] : u \in UserInputs}

\* one agent call: the agent, its prompt, and its response or failure
Invoked(agent, prompt, out, failed) ==
    [agent |-> agent, prompt |-> prompt, out |-> out, failed |-> failed]

ResearcherPrompt(user_input) ==
    "Research: '" \o user_input
        \o "'. Use your available tools to gather information from reliable sources. "
        \o "Focus on being concise and thorough, but limit web requests to 1-2 sources."

AnalystPrompt(user_input, research_findings) ==
    "Analyze these findings about '" \o user_input \o "':\n\n" \o research_findings

WriterPrompt(user_input, analysis) ==
    "Create a report on '" \o user_input \o "' based on this analysis:\n\n" \o analysis

\* lines 54-72
ResearcherAgent(out) ==
    /\ call.fn = "run_research_workflow"
    /\ call.at = "researcher"
    /\ call' = [call EXCEPT !.at = "analyst",
                            !.invoked = Append(@, Invoked("researcher",
                                                          ResearcherPrompt(call.user_input),
                                                          out, FALSE)),
                            !.research_findings = out]
    /\ UNCHANGED handlerVars

ResearcherRaise ==
    /\ call.fn = "run_research_workflow"
    /\ call.at = "researcher"
    /\ call' = [call EXCEPT !.at = "done", !.raised = "researcher",
                            !.invoked = Append(@, Invoked("researcher",
                                                          ResearcherPrompt(call.user_input),
                                                          "", TRUE))]
    /\ UNCHANGED handlerVars

\* lines 80-96
AnalystAgent(out) ==
    /\ call.fn = "run_research_workflow"
    /\ call.at = "analyst"
    /\ call' = [call EXCEPT !.at = "writer",
                            !.invoked = Append(@, Invoked("analyst",
                                                          AnalystPrompt(call.user_input,
                                                                        call.research_findings),
                                                          out, FALSE)),
                            !.analysis = out]
    /\ UNCHANGED handlerVars

AnalystRaise ==
    /\ call.fn = "run_research_workflow"
    /\ call.at = "analyst"
    /\ call' = [call EXCEPT !.at = "done", !.raised = "analyst",
                            !.invoked = Append(@, Invoked("analyst",
                                                          AnalystPrompt(call.user_input,
                                                                        call.research_findings),
                                                          "", TRUE))]
    /\ UNCHANGED handlerVars

\* lines 104-119
WriterAgent(out) ==
    /\ call.fn = "run_research_workflow"
    /\ call.at = "writer"
    /\ call' = [call EXCEPT !.at = "visual",
                            !.invoked = Append(@, Invoked("writer",
                                                          WriterPrompt(call.user_input,
                                                                       call.analysis),
                                                          out, FALSE)),
                            !.final_report = out]
    /\ UNCHANGED handlerVars

WriterRaise ==
    /\ call.fn = "run_research_workflow"
    /\ call.at = "writer"
    /\ call' = [call EXCEPT !.at = "done", !.raised = "writer",
                            !.invoked = Append(@, Invoked("writer",
                                                          WriterPrompt(call.user_input,
                                                                       call.analysis),
                                                          "", TRUE))]
    /\ UNCHANGED handlerVars

\* lines 122-124 and 130: the report is saved and opened, and returned
VisualReport ==
    /\ call.fn = "run_research_workflow"
    /\ call.at = "visual"
    /\ call' = [call EXCEPT !.at = "done", !.visual = "opened",
                            !.ret = [none |-> FALSE, str |-> call.final_report]]
    /\ UNCHANGED handlerVars

\* a failure of the save or of the browser ends the run
VisualReportRaise_propagates ==
    /\ call.fn = "run_research_workflow"
    /\ call.at = "visual"
    /\ \E step \in {"save", "open"} :
          call' = [call EXCEPT !.at = "done", !.visual = step \o " failed",
                               !.raised = step]
    /\ UNCHANGED handlerVars

\* lines 122-130: _save_visual_report or webbrowser.open raises an Exception,
\* the warning is printed, and the report is returned
VisualReportRaise ==
    /\ call.fn = "run_research_workflow"
    /\ call.at = "visual"
    /\ \E step \in {"save", "open"} :
          call' = [call EXCEPT !.at = "done", !.visual = step \o " failed",
                               !.ret = [none |-> FALSE, str |-> call.final_report]]
    /\ UNCHANGED handlerVars

NextWorkflow ==
    \/ \E out \in ResearcherOutputs : ResearcherAgent(out)
    \/ ResearcherRaise
    \/ \E out \in AnalystOutputs : AnalystAgent(out)
    \/ AnalystRaise
    \/ \E out \in WriterOutputs : WriterAgent(out)
    \/ WriterRaise
    \/ VisualReport
    \/ VisualReportRaise

SpecWorkflow == InitWorkflow /\ [][NextWorkflow]_vars

-----------------------------------------------------------------------------
(* Properties of determine_action, under SpecDetermine *)

C1_Keywords ==
    {"remember", "store", "save", "record", "note that", "what did i tell",
     "what do you remember", "recall", "retrieve", "my name is", "i live",
     "my birthday", "where do i live", "who am i"}

\* the lower-cased utterance contains a knowledgebase keyword
C1_HasKeyword(q) == \E k \in C1_Keywords : Contains(Lower(q), k)

\* C1: for an utterance containing a knowledgebase keyword, determine_action
\* returns "knowledgebase", calls no model and raises nothing.
C1_KeywordRoutesWithoutModel ==
    \A s \in sessions :
        C1_HasKeyword(query[s]) =>
            /\ calls[s] = <<>>
            /\ pc[s] \in {"determine_action", "route"}
            /\ pc[s] = "route" => action[s] = "knowledgebase"

\* a keyword in capitals, routed to the knowledge base with no call made
C1_Witness ==
    /\ pc[1] = "route"
    /\ query[1] = "SAVEmy name"
    /\ action[1] = "knowledgebase"
    /\ calls[1] = <<>>

\* C2: for an utterance without keyword, determine_action makes exactly one
\* model call, and returns "knowledgebase" exactly when the answer, lower-cased
\* and trimmed, equals "knowledgebase", "teacher" for every other answer.
C2_FallbackDecides ==
    \A s \in sessions :
        (~C1_HasKeyword(query[s]) /\ pc[s] \in {"route", "except"}) =>
            /\ Len(calls[s]) = 1
            /\ calls[s][1].tool = "use_llm"
            /\ calls[s][1].kind = "ACTION_SYSTEM_PROMPT"
            /\ pc[s] = "route" =>
                  /\ ~calls[s][1].raised
                  /\ action[s] \in {"knowledgebase", "teacher"}
                  /\ action[s] = "knowledgebase" <=>
                        Strip(Lower(calls[s][1].out)) = "knowledgebase"

\* an answer that only contains the word sends the utterance to the teacher
C2_Witness ==
    /\ pc[1] = "route"
    /\ query[1] = "what is 2+2"
    /\ calls[1][1].out = "knowledgebase please"
    /\ action[1] = "teacher"

-----------------------------------------------------------------------------
(* Properties of the request handler, under Spec *)

IsRouting(c) == c.tool = "use_llm" /\ c.kind = "ACTION_SYSTEM_PROMPT"

IsClassification(c) == c.tool = "use_llm" /\ c.kind = "KB_ACTION_SYSTEM_PROMPT"

IsSummarization(c) == c.tool = "use_llm" /\ c.kind = "ANSWER_SYSTEM_PROMPT"

IsMemory(c) == c.tool = "memory"

\* C3: the store/retrieve classification and the memory call happen only on
\* the knowledgebase route, never on the teacher route; the routing call, when
\* there is one, comes first; the memory call comes after the classification
\* has returned, and the summarization after the retrieval has returned.
C3_StageOrder ==
    \A s \in sessions :
        LET cs == calls[s]
        IN /\ \A j \in 1..Len(cs) :
                 /\ IsRouting(cs[j]) => j = 1
                 /\ (IsClassification(cs[j]) \/ IsMemory(cs[j])) =>
                       action[s] = "knowledgebase"
                 /\ IsMemory(cs[j]) =>
                       \E i \in 1..(j - 1) : IsClassification(cs[i]) /\ ~cs[i].raised
                 /\ IsSummarization(cs[j]) =>
                       \E i \in 1..(j - 1) :
                          IsMemory(cs[i]) /\ cs[i].kind = "retrieve" /\ ~cs[i].raised
           /\ action[s] = "teacher" =>
                 \A j \in 1..Len(cs) : ~IsClassification(cs[j]) /\ ~IsMemory(cs[j])

\* a knowledgebase request that made the routing, classification, retrieval
\* and summarization calls, in that order
C3_Witness ==
    /\ pc[1] = "respond"
    /\ action[1] = "knowledgebase"
    /\ Len(calls[1]) = 4
    /\ IsRouting(calls[1][1])
    /\ IsClassification(calls[1][2])
    /\ IsMemory(calls[1][3])
    /\ IsSummarization(calls[1][4])

\* C5: the content of every store call is a non-empty string: the normalized
\* query when that is non-empty, else the query as typed.
C5_StoredContentNonEmpty ==
    \A s \in sessions :
        \A j \in 1..Len(calls[s]) :
            (IsMemory(calls[s][j]) /\ calls[s][j].kind = "store") =>
                /\ Len(calls[s][j].arg) > 0
                /\ calls[s][j].arg =
                      (IF _normalize_store_content(PyStr(query[s])) # ""
                       THEN _normalize_store_content(PyStr(query[s]))
                       ELSE query[s])

\* a blank query stored as typed, its normalized form being empty
C5_Witness ==
    /\ query[1] = " "
    /\ _normalize_store_content(PyStr(query[1])) = ""
    /\ Len(calls[1]) = 3
    /\ IsMemory(calls[1][3])
    /\ calls[1][3].kind = "store"
    /\ calls[1][3].arg = " "

-----------------------------------------------------------------------------
(* Properties of _normalize_store_content, under SpecNormalize *)

NormalizeDone == call.fn = "_normalize_store_content" /\ call.done

\* the prefixes in the priority order the specification gives
C4_Priority ==
    << "remember that ", "remember ", "save that ", "save ",
       "store that ", "store ", "note that ", "record that " >>

\* the priorities of the prefixes the lower-cased text t starts with
C4_Matching(t) ==
    {i \in 1..Len(C4_Priority) : StartsWith(Lower(t), C4_Priority[i])}

\* C4: the result is the trimmed input with the first prefix of the priority
\* list that its lower-cased form starts with removed, and nothing more, the
\* remainder trimmed and in its original casing; the trimmed input itself when
\* no prefix matches.
C4_FirstPrefixStripped ==
    NormalizeDone =>
        LET t == Strip(OrEmpty(call.raw))
        IN /\ C4_Matching(t) = {} => call.ret = t
           /\ C4_Matching(t) # {} =>
                 call.ret = Strip(From(t, Len(C4_Priority[Min(C4_Matching(t))])))
           /\ call.raw = PyStr("Remember that my birthday is 12 Oct") =>
                 call.ret = "my birthday is 12 Oct"
           /\ call.raw = PyStr("Hello there") => call.ret = "Hello there"

\* an input two prefixes match, in mixed case, normalized
C4_Witness ==
    /\ NormalizeDone
    /\ call.raw = PyStr("Remember that my birthday is 12 Oct")
    /\ Cardinality(C4_Matching(Strip(call.raw.str))) = 2
    /\ call.ret = "my birthday is 12 Oct"

\* s has a character that is not whitespace
HasNonSpace(s) == \E i \in 1..Len(s) : ~IsSpace(Char(s, i))

\* C6: the result is the empty string only for an input that is None, empty
\* or all whitespace; an input with a non-whitespace character, a bare prefix
\* word included, gives a non-empty result.
C6_EmptyOnlyForBlank ==
    NormalizeDone =>
        /\ call.ret = "" => (call.raw.none \/ ~HasNonSpace(call.raw.str))
        /\ (~call.raw.none /\ HasNonSpace(call.raw.str)) => Len(call.ret) > 0

\* inputs that are only prefix words, normalized to something non-empty
C6_Witness ==
    /\ NormalizeDone
    /\ call.raw \in {PyStr("remember "), PyStr("store that ")}
    /\ call.ret \in {"remember", "that"}

-----------------------------------------------------------------------------
(* Properties of _extract_memory_entries, under SpecExtract *)

ExtractDone == call.fn = "_extract_memory_entries" /\ call.done

\* the entries of the lines ls, each line extracted on its own, in line order
RECURSIVE C7_PerLine(_)
C7_PerLine(ls) ==
    IF ls = <<>> THEN <<>>
    ELSE _extract_memory_entries(Head(ls)) \o C7_PerLine(Tail(ls))

\* C7: a line without the marker yields no entry, a line with it at most one,
\* and the entries of a text are the entries of its lines in line order,
\* repeated lines giving repeated entries; the two-line example of the
\* specification gives its two entries.
C7_OneEntryPerMarkerLine ==
    ExtractDone =>
        /\ \A i \in 1..Len(call.lines) :
              /\ Len(_extract_memory_entries(call.lines[i])) <= 1
              /\ ~Contains(call.lines[i], "Content Preview:") =>
                    _extract_memory_entries(call.lines[i]) = <<>>
        /\ call.ret = C7_PerLine(call.lines)
        /\ call.lines = << "Content Preview: {\"content\": \"my birthday is 12 oktober\"}",
                            "Content Preview: plain text fact" >> =>
              call.ret = << "my birthday is 12 oktober", "plain text fact" >>

\* the same marker line twice: its entry twice
C7_Witness ==
    /\ ExtractDone
    /\ call.lines = << "Content Preview: plain text fact", "Content Preview: plain text fact" >>
    /\ call.ret = << "plain text fact", "plain text fact" >>

\* the offsets of the double quotes of s that no backslash precedes
C8_Unescaped(s) == {i \in Occurrences(s, "\"") : i = 0 \/ Char(s, i) # "\\"}

\* the text after the first double quote that follows the key
C8_AfterOpening(snippet) ==
    LET after == AfterFirst(snippet, "\"content\":")
    IN From(after, Find(after, "\"") + 1)

\* C8: for a marker line whose snippet holds the key, an opening double quote
\* after it and an unescaped double quote after that, the entry is the text
\* between the two (compared trimmed): a backslash-quote does not end it and
\* text between the key and the opening quote is not part of it.
C8_QuotedValue ==
    (ExtractDone /\ Len(call.lines) = 1 /\ Contains(call.lines[1], "Content Preview:")) =>
        LET snippet == Strip(AfterFirst(call.lines[1], "Content Preview:"))
            rest == C8_AfterOpening(snippet)
        IN (/\ Contains(snippet, "\"content\":")
            /\ Contains(AfterFirst(snippet, "\"content\":"), "\"")
            /\ C8_Unescaped(rest) # {})
           => call.ret = << Strip(UpTo(rest, Min(C8_Unescaped(rest)))) >>

\* the snippet of a marker line falls to the as-is branch: no key, or no quote
\* after the key's opening quote
C9_NoValue(snippet) ==
    \/ ~Contains(snippet, "\"content\":")
    \/ LET after == LStrip(AfterFirst(snippet, "\"content\":"))
       IN ~Contains(IF StartsWith(after, "\"") THEN From(after, 1) ELSE after, "\"")

\* C9: a marker line without an extractable value gives its trimmed snippet as
\* its entry exactly when the snippet is non-empty, and no entry of the result
\* is the empty string.
C9_SnippetOrNothing ==
    ExtractDone =>
        /\ \A i \in 1..Len(call.lines) :
              LET line == call.lines[i]
                  snippet == Strip(AfterFirst(line, "Content Preview:"))
              IN (Contains(line, "Content Preview:") /\ C9_NoValue(snippet)) =>
                    _extract_memory_entries(line) =
                        (IF snippet # "" THEN <<snippet>> ELSE <<>>)
        /\ \A k \in 1..Len(call.ret) : call.ret[k] # ""

-----------------------------------------------------------------------------
(* Properties of _answer_from_memory, under SpecAnswer *)

AnswerDone == call.fn = "_answer_from_memory" /\ call.done

\* characters a to b of s (offsets) are whitespace, at least one
C10_Spaces(s, a, b) == a < b /\ \A k \in (a + 1)..b : IsSpace(Char(s, k))

\* s has the word w, in any case, at offset a
C10_Word(s, a, w) == a + Len(w) <= Len(s) /\ Lower(SubSeq(s, a + 1, a + Len(w))) = w

\* the character of s at offset k ends a value: a newline, a quote or a period
C10_Stop(s, k) == Char(s, k + 1) \in {"\n", "\"", "."}

\* a value starts at offset g: the end of the longest run without a stop
C10_ValueEnd(s, g) == Min({e \in g..Len(s) : e = Len(s) \/ C10_Stop(s, e)})

\* the offsets where the "is" of a "birthday is" at offset i starts
C10_IsOffsets(s, i) ==
    {b \in (i + 9)..Len(s) : C10_Spaces(s, i + 8, b) /\ C10_Word(s, b, "is")}

\* the offsets where a value of "birthday is <value>", matched at offset i, starts
C10_Values(s, i) ==
    UNION {{g \in (b + 3)..(Len(s) - 1) : C10_Spaces(s, b + 2, g) /\ ~C10_Stop(s, g)} :
              b \in C10_IsOffsets(s, i)}

\* the offsets where "birthday is <value>" matches
C10_Matches(s) == {i \in Occurrences(Lower(s), "birthday") : C10_Values(s, i) # {}}

\* the value of the match at offset i: whitespace goes to the separator before it
C10_Value(s, i) ==
    LET g == Max(C10_Values(s, i))
    IN SubSeq(s, g + 1, C10_ValueEnd(s, g))

\* C10: a query containing "birthday" over entries that hold a match of
\* "birthday is <value>" is answered "Your birthday is V.", V the trimmed value
\* of the first match, ending before the first newline, quote or period, with
\* "oktober" replaced by "october".
C10_BirthdayAnswer ==
    AnswerDone =>
        LET blob == Join("\n", call.memories)
            found == C10_Matches(blob)
            value == C10_Value(blob, Min(found))
        IN /\ (Contains(Lower(OrEmpty(call.query)), "birthday") /\ found # {}) =>
                 /\ call.ret = PyStr("Your birthday is "
                                       \o Replace(Strip(value), "oktober", "october")
                                       \o ".")
                 /\ ~Contains(value, "\n")
           /\ (call.query = PyStr("what is my birthday")
                 /\ call.memories = << "my birthday is 12 oktober" >>) =>
                 call.ret = PyStr("Your birthday is 12 october.")

\* the example of the specification, answered with the spelling corrected
C10_Witness ==
    /\ AnswerDone
    /\ call.query = PyStr("what is my birthday")
    /\ call.memories = << "my birthday is 12 oktober" >>
    /\ C10_Matches(Join("\n", call.memories)) = {3}
    /\ call.ret = PyStr("Your birthday is 12 october.")

\* the offsets where the words ws, in any case and separated by whitespace,
\* end when they start at offset i of s
RECURSIVE C11_Ends(_, _, _)
C11_Ends(s, i, ws) ==
    IF ~C10_Word(s, i, Head(ws)) THEN {}
    ELSE IF Len(ws) = 1 THEN {i + Len(Head(ws))}
    ELSE UNION {C11_Ends(s, b, Tail(ws)) :
                   b \in {b \in (i + Len(Head(ws)) + 1)..Len(s) :
                             C10_Spaces(s, i + Len(Head(ws)), b)}}

\* s holds the words ws followed by whitespace and a value of at least one
\* character
C11_HasMatch(s, ws) ==
    \E i \in Occurrences(Lower(s), Head(ws)) :
        \E e \in C11_Ends(s, i, ws) :
            \E g \in (e + 1)..(Len(s) - 1) : C10_Spaces(s, e, g) /\ ~C10_Stop(s, g)

\* the question type can be answered: its keyword is in the query and its
\* pattern matches the entries
C11_Birthday(q, blob) ==
    Contains(q, "birthday") /\ C11_HasMatch(blob, << "birthday", "is" >>)

C11_Residence(q, blob) ==
    /\ Contains(q, "where do i live") \/ Contains(q, "where i live")
    /\ C11_HasMatch(blob, << "i", "live", "in" >>)

C11_Name(q, blob) ==
    Contains(q, "my name") /\ C11_HasMatch(blob, << "my", "name", "is" >>)

\* C11 as stated: the question types form an else-if chain, so a query
\* containing "birthday" over entries without "birthday is <value>" gets nothing,
\* whatever else the query asks and the entries hold.
C11_ElseIfChain ==
    AnswerDone =>
        LET q == Lower(OrEmpty(call.query))
            blob == Join("\n", call.memories)
        IN (Contains(q, "birthday") /\ ~C11_HasMatch(blob, << "birthday", "is" >>)) =>
               call.ret = PyNone

\* C11, amended: the question types are tried in the order birthday, residence,
\* name, and the first one that has both its keyword in the query and a match
\* in the entries gives the answer; a type whose keyword occurs without a match
\* falls through to the next, and the result is nothing only when no type can
\* be answered.
C11_FirstAnswerableType ==
    AnswerDone =>
        LET q == Lower(OrEmpty(call.query))
            blob == Join("\n", call.memories)
            b == C11_Birthday(q, blob)
            l == C11_Residence(q, blob)
            n == C11_Name(q, blob)
        IN /\ call.ret.none <=> ~(b \/ l \/ n)
           /\ b => StartsWith(call.ret.str, "Your birthday is ")
           /\ (~b /\ l) => StartsWith(call.ret.str, "You live in ")
           /\ (~b /\ ~l /\ n) => StartsWith(call.ret.str, "Your name is ")
           /\ (call.query = PyStr("tell me my birthday and my name")
                 /\ call.memories = << "my name is Bob" >>) =>
                 call.ret = PyStr("Your name is Bob.")

\* a birthday-and-name question over entries that hold only the name is
\* answered with the name
C11_Witness ==
    /\ AnswerDone
    /\ call.query = PyStr("tell me my birthday and my name")
    /\ call.memories = << "my name is Bob" >>
    /\ ~C11_HasMatch(Join("\n", call.memories), << "birthday", "is" >>)
    /\ C11_HasMatch(Join("\n", call.memories), << "my", "name", "is" >>)
    /\ call.ret = PyStr("Your name is Bob.")

-----------------------------------------------------------------------------
(* Properties of run_kb_agent's retrieve path, under Spec *)

\* the retrieve calls of the request of session s that returned
C12_Retrieved(s) ==
    {i \in 1..Len(calls[s]) :
        IsMemory(calls[s][i]) /\ calls[s][i].kind = "retrieve" /\ ~calls[s][i].raised}

\* the summarization calls of the request of session s
C12_Summaries(s) == {j \in 1..Len(calls[s]) : IsSummarization(calls[s][j])}

\* the response text carries an error indicator
C12_Error(rs) ==
    \E ind \in {"status': 'error'", "\"status\": \"error\"", "No knowledge base ID"} :
        Occurrences(rs, ind) # {}

C12_NoResults(rs) == Occurrences(rs, "No results found") # {}

\* C12: on the retrieve path the summarizer is called if and only if the
\* response has no error indicator and no "No results found", entries were
\* extracted and none answers the query directly; a direct answer is returned
\* with no further call, and the summarizer's completion is returned verbatim.
C12_SummarizerIffNoDirectAnswer ==
    \A s \in sessions :
        \A i \in C12_Retrieved(s) :
            LET rs == calls[s][i].out
                entries == _extract_memory_entries(rs)
                direct == _answer_from_memory(PyStr(query[s]), entries)
                clean == ~C12_Error(rs) /\ ~C12_NoResults(rs)
            IN /\ (pc[s] = "kb_summarize" \/ C12_Summaries(s) # {}) <=>
                     (clean /\ entries # <<>> /\ direct.none)
               /\ (clean /\ ~direct.none) =>
                     /\ pc[s] = "respond"
                     /\ content[s] = direct.str
                     /\ i = Len(calls[s])
               /\ \A j \in C12_Summaries(s) :
                     ~calls[s][j].raised =>
                        pc[s] = "respond" /\ content[s] = calls[s][j].out

\* a retrieval of an entry that answers no question type directly: the
\* summarizer's text is the response; and a retrieval answered directly
C12_Witness ==
    /\ pc[1] = "respond"
    /\ C12_Retrieved(1) # {}
    /\ \E j \in C12_Summaries(1) :
          /\ calls[1][j].out = "You like tea."
          /\ content[1] = calls[1][j].out
    /\ Len(messages[1]) = 3
    /\ messages[1][2].content = "Your birthday is 12 october."

\* C13: when extraction is reached (no error indicator, no "No results found")
\* and yields no entries, nothing answers the query directly, the response is
\* the "I couldn't extract ..." guidance, no summarization call is made and
\* nothing is raised.
C13_NoEntriesGuidance ==
    \A s \in sessions :
        \A i \in C12_Retrieved(s) :
            LET rs == calls[s][i].out
            IN (~C12_Error(rs) /\ ~C12_NoResults(rs) /\ _extract_memory_entries(rs) = <<>>) =>
                  /\ _answer_from_memory(PyStr(query[s]), <<>>) = PyNone
                  /\ pc[s] = "respond"
                  /\ content[s] = "I couldn't extract any relevant stored facts yet. "
                        \o "Try storing it explicitly, e.g. 'Remember that my birthday is 12 Oct'."
                  /\ C12_Summaries(s) = {}
                  /\ \A j \in 1..Len(calls[s]) : ~calls[s][j].raised

\* a birthday question retrieves a response without any "Content Preview:" line
C13_Witness ==
    /\ pc[1] = "respond"
    /\ Contains(Lower(query[1]), "birthday")
    /\ \E i \in C12_Retrieved(1) :
          /\ calls[1][i].out = "Score: 0.1"
          /\ _extract_memory_entries(calls[1][i].out) = <<>>
          /\ i = Len(calls[1])
    /\ StartsWith(content[1], "I couldn't extract any relevant stored facts yet.")

\* C15: a retrieve response with an error indicator is answered with the
\* "Knowledge base request failed ..." string, which holds the current ID and
\* the raw response; no second memory call is made; "No results found" and
\* "Content Preview:" in the same text change nothing.
C15_ErrorIndicatorFirst ==
    \A s \in sessions :
        \A i \in C12_Retrieved(s) :
            LET rs == calls[s][i].out
            IN C12_Error(rs) =>
                  /\ pc[s] = "respond"
                  /\ kb_id[s] = environ
                  /\ content[s] =
                        "Knowledge base request failed. Please verify the ID, region, "
                           \o "and permissions. Current ID: " \o kb_id[s]
                           \o ". Error: " \o rs
                  /\ {j \in 1..Len(calls[s]) : IsMemory(calls[s][j])} = {i}
                  /\ i = Len(calls[s])

\* an error response that also says "No results found" and has a
\* "Content Preview:" line
C15_Witness ==
    /\ pc[1] = "respond"
    /\ \E i \in C12_Retrieved(1) :
          /\ C12_Error(calls[1][i].out)
          /\ C12_NoResults(calls[1][i].out)
          /\ _extract_memory_entries(calls[1][i].out) # <<>>
          /\ Contains(content[1], "Current ID: demokb123. Error: " \o calls[1][i].out)

\* C17: a retrieve response with "No results found" and no error indicator is
\* answered with the "I don't have any stored information matching that yet
\* ..." guidance as a normal result: nothing is raised, no entry of a "Content
\* Preview:" line in the same text is used, and no summarization call is made.
C17_NoResultsGuidance ==
    \A s \in sessions :
        \A i \in C12_Retrieved(s) :
            LET rs == calls[s][i].out
            IN (C12_NoResults(rs) /\ ~C12_Error(rs)) =>
                  /\ pc[s] = "respond"
                  /\ content[s] =
                        "I don't have any stored information matching that yet. "
                           \o "Try phrasing a fact to store first, "
                           \o "e.g. 'Remember that my birthday is 12 Oct'."
                  /\ C12_Summaries(s) = {}
                  /\ i = Len(calls[s])
                  /\ \A j \in 1..Len(calls[s]) : ~calls[s][j].raised

\* a "No results found" response that has a "Content Preview:" line as well
C17_Witness ==
    /\ pc[1] = "respond"
    /\ \E i \in C12_Retrieved(1) :
          /\ calls[1][i].out = "No results found.\nContent Preview: stale"
          /\ _extract_memory_entries(calls[1][i].out) = << "stale" >>
    /\ StartsWith(content[1], "I don't have any stored information matching that yet.")

-----------------------------------------------------------------------------
(* Properties of run_kb_agent's ID check and store path, under Spec *)

C14_AlnumChars ==
    {Char("abcdefghijklmnopqrstuvwxyzABCDEFGHIJKLMNOPQRSTUVWXYZ0123456789", k) : k \in 1..62}

\* id is not alphanumeric or is shorter than 6 characters
C14_Invalid(id) ==
    \/ Len(id) < 6
    \/ \E k \in 1..Len(id) : Char(id, k) \notin C14_AlnumChars

\* C14: when run_kb_agent finds the current knowledge-base ID not alphanumeric
\* or shorter than 6 characters, it returns the "Knowledge base is not
\* configured ..." string naming the ID, raises nothing and makes no model call
\* and no memory call: the only call of the request is determine_action's.
C14_InvalidIdNotConfigured ==
    \A s \in sessions :
        (kb_id[s] # "" /\ C14_Invalid(kb_id[s])) =>
            /\ kb_id[s] = environ
            /\ pc[s] = "respond"
            /\ content[s] =
                  "Knowledge base is not configured. Provide a valid alphanumeric "
                     \o "Knowledge Base ID (no hyphens or special characters, got '"
                     \o kb_id[s] \o "')."
            /\ \A j \in 1..Len(calls[s]) : IsRouting(calls[s][j]) /\ ~calls[s][j].raised

\* run_kb_agent has run once with an alphanumeric ID of three characters and
\* runs again with a long ID that has hyphens
C14_Witness ==
    /\ pc[1] = "respond"
    /\ kb_id[1] = "my-kb-2024"
    /\ calls[1] = <<>>
    /\ StartsWith(content[1], "Knowledge base is not configured.")
    /\ Len(messages[1]) = 3
    /\ Contains(messages[1][2].content, "got 'kb1'")

\* the store calls of the request of session s that returned
C16_Stored(s) ==
    {i \in 1..Len(calls[s]) :
        IsMemory(calls[s][i]) /\ calls[s][i].kind = "store" /\ ~calls[s][i].raised}

\* C16: when the response to the store call reports an error, run_kb_agent
\* returns the diagnostic string with the ID and the raw error text; the
\* confirmation "I've stored this information." is returned only when the
\* store call reported no error.
C16_StoreErrorReported ==
    \A s \in sessions :
        \A i \in C16_Stored(s) :
            /\ C12_Error(calls[s][i].out) =>
                  content[s] =
                     "Knowledge base request failed. Please verify the ID, region, "
                        \o "and permissions. Current ID: " \o kb_id[s]
                        \o ". Error: " \o calls[s][i].out
            /\ content[s] = "I've stored this information." => ~C12_Error(calls[s][i].out)

-----------------------------------------------------------------------------
(* Properties of the top-level handler's failure handling, under Spec *)

\* the calls of the request of session s that raised
C18_Raised(s) == {j \in 1..Len(calls[s]) : calls[s][j].raised}

\* a step keeps the history of session s and may add messages at its end
C18_HistoryKept(s) ==
    /\ Len(messages'[s]) >= Len(messages[s])
    /\ SubSeq(messages'[s], 1, Len(messages[s])) = messages[s]

\* C18: an exception raised by determine_action, the teacher agent or
\* run_kb_agent is caught by the handler: control is in the except clause
\* with the exception's text, the next step appends "An error occurred: <text>"
\* as the assistant message and ends the request, and no step changes or
\* removes a message that is already in the history.
C18_FailureCaughtHistoryKept ==
    /\ [](\A s \in sessions :
             /\ C18_Raised(s) # {} => pc[s] = "except"
             /\ pc[s] = "except" =>
                   /\ C18_Raised(s) = {Len(calls[s])}
                   /\ content[s] \in Errors
                   /\ messages[s][Len(messages[s])] = Message("user", query[s]))
    /\ [][\A s \in sessions :
             /\ C18_HistoryKept(s)
             /\ (pc[s] = "except" /\ pc'[s] # "except") =>
                   /\ pc'[s] = "idle"
                   /\ messages'[s] =
                         messages[s] \o << [role |-> "assistant",
                                            content |-> "An error occurred: " \o content[s]] >>]_vars

\* a request answered by the teacher, then a run_kb_agent request whose
\* retrieve call raised: both earlier messages precede the new pair
C18_Witness ==
    /\ pc[1] = "idle"
    /\ Len(messages[1]) = 4
    /\ messages[1][1] = Message("user", "what is 2+2")
    /\ messages[1][2] = Message("assistant", "4")
    /\ messages[1][3] = Message("user", "Remember that my birthday is 12 Oct")
    /\ messages[1][4] = Message("assistant", "An error occurred: ThrottlingException")

\* C19: when the routing model call of determine_action fails, the failure
\* reaches the caller, and the caller treats the utterance as route "teacher":
\* the request goes on to the teacher agent and is not ended as an error.
C19_FailedRoutingFallsBackToTeacher ==
    \A s \in sessions :
        (calls[s] # <<>> /\ IsRouting(calls[s][1]) /\ calls[s][1].raised) =>
            /\ action[s] = "teacher"
            /\ pc[s] # "except"
            /\ pc[s] = "respond" =>
                  \E j \in 2..Len(calls[s]) : calls[s][j].tool = "teacher"

\* the number of calls of the request of session s that are of the kind Is
C20_Count(s, Is(_)) == Cardinality({j \in 1..Len(calls[s]) : Is(calls[s][j])})

\* C20: no external call is retried: a request makes at most one routing call,
\* one classification call, one memory call and one summarization call, and a
\* call that raised is the last call of its request.
C20_NoRetry ==
    \A s \in sessions :
        /\ C20_Count(s, IsRouting) <= 1
        /\ C20_Count(s, IsClassification) <= 1
        /\ C20_Count(s, IsMemory) <= 1
        /\ C20_Count(s, IsSummarization) <= 1
        /\ \A j \in 1..Len(calls[s]) : calls[s][j].raised => j = Len(calls[s])

\* a request whose routing, classification and retrieve calls returned and
\* whose summarization call raised
C20_Witness ==
    /\ pc[1] = "except"
    /\ Len(calls[1]) = 4
    /\ IsRouting(calls[1][1]) /\ IsClassification(calls[1][2])
    /\ IsMemory(calls[1][3]) /\ IsSummarization(calls[1][4])
    /\ calls[1][4].raised
    /\ \A j \in 1..3 : ~calls[1][j].raised

-----------------------------------------------------------------------------
(* Properties of two concurrent sessions, under SpecSessions *)

\* C21: under every interleaving of two sessions' sidebar updates and
\* queries, the knowledge-base ID a request validates is the ID configured in
\* its own session, and so is the ID in the environment variable when the
\* request is about to make its memory call (the memory tool reads it there).
C21_OwnSessionKbId ==
    \A s \in sessions :
        /\ kb_id[s] # "" => kb_id[s] = kb_id_input[s]
        /\ pc[s] \in {"kb_store", "kb_retrieve"} => environ = kb_id_input[s]

\* the request of session s is on the retrieve path of run_kb_agent
C22_OnRetrievePath(s) ==
    \/ pc[s] \in {"kb_retrieve", "kb_summarize"}
    \/ \E j \in 1..Len(calls[s]) : IsMemory(calls[s][j]) /\ calls[s][j].kind = "retrieve"

\* the calls run_kb_agent made for the request of session s, with their results
C22_KbCalls(s) == SelectSeq(calls[s], LAMBDA c : ~IsRouting(c))

\* run_kb_agent has ended for the request of session s
C22_Ended(s) == kb_id[s] # "" /\ pc[s] \in {"respond", "except"}

\* C22: a request on the retrieve path makes no store call; and two runs of
\* run_kb_agent on the retrieve path with the same query and the same
\* knowledge-base ID, given the same model outputs and the same response of
\* the memory service, end the same way with the same string, whatever the
\* other session did in between.
C22_RetrieveRepeatable ==
    /\ \A s \in sessions :
          C22_OnRetrievePath(s) =>
             \A j \in 1..Len(calls[s]) :
                ~(IsMemory(calls[s][j]) /\ calls[s][j].kind = "store")
    /\ \A s, t \in sessions :
          (/\ C22_Ended(s) /\ C22_Ended(t)
           /\ C22_OnRetrievePath(s) /\ C22_OnRetrievePath(t)
           /\ query[s] = query[t]
           /\ kb_id[s] = kb_id[t]
           /\ C22_KbCalls(s) = C22_KbCalls(t)) =>
              pc[s] = pc[t] /\ content[s] = content[t]

\* both sessions asked the same question of the same knowledge base after the
\* process's ID was changed and changed back; one request was routed by the
\* model, the other was not
C22_Witness ==
    /\ pc[1] = "respond" /\ pc[2] = "respond"
    /\ query[1] = query[2]
    /\ kb_id[1] = "teamkb4567" /\ kb_id[2] = "teamkb4567"
    /\ C22_OnRetrievePath(1) /\ C22_OnRetrievePath(2)
    /\ C22_KbCalls(1) = C22_KbCalls(2)
    /\ Len(C22_KbCalls(1)) = 2
    /\ IsErrorResult(calls[1][Len(calls[1])].out)
    /\ content[1] = content[2]
    /\ Contains(content[1], "Current ID: teamkb4567.")

-----------------------------------------------------------------------------
(* Properties of run_kb_agent's store/retrieve choice, under Spec *)

\* the request of session s is on the store path of run_kb_agent
C23_OnStorePath(s) ==
    \/ pc[s] = "kb_store"
    \/ \E j \in 1..Len(calls[s]) : IsMemory(calls[s][j]) /\ calls[s][j].kind = "store"

\* C23: once the sub-classifier has answered, run_kb_agent is on the store
\* path if and only if the answer, lower-cased and trimmed, contains "store"
\* anywhere ("storeroom" and "do not store" select store too), and on the
\* retrieve path otherwise.
C23_StoreIffContainsStore ==
    \A s \in sessions :
        \A i \in 1..Len(calls[s]) :
            (IsClassification(calls[s][i]) /\ ~calls[s][i].raised) =>
                LET has == Occurrences(Strip(Lower(calls[s][i].out)), "store") # {}
                IN /\ C23_OnStorePath(s) <=> has
                   /\ C22_OnRetrievePath(s) <=> ~has

\* the answer "Do not store" has led to a store call, in the second request of
\* a session whose first request was stored too
C23_Witness ==
    /\ pc[1] = "respond"
    /\ Len(messages[1]) = 3
    /\ messages[1][2].content = "I've stored this information."
    /\ \E i \in 1..Len(calls[1]) :
          IsClassification(calls[1][i]) /\ calls[1][i].out = "Do not store"
    /\ C23_OnStorePath(1)
    /\ content[1] = "I've stored this information."

-----------------------------------------------------------------------------
(* Properties of _extract_memory_entries called twice, under SpecExtractAgain *)

-----------------------------------------------------------------------------
(* Properties of the session history, under Spec *)

\* the first n messages of h are pairs of a user message and an assistant
\* message
C25_Pairs(h, n) ==
    \A k \in 1..n : h[k].role = IF k % 2 = 1 THEN "user" ELSE "assistant"

\* C25: the history holds two messages per handled query, the user's message
\* and then one assistant message, whether the request was answered, got a
\* guidance or diagnostic string or raised; while a request is handled its
\* query is the last message; messages are appended one at a time, at the end,
\* and none is removed or rewritten.
C25_TwoMessagesPerQuery ==
    /\ [](\A s \in sessions :
             /\ C25_Pairs(messages[s], Len(messages[s]))
             /\ pc[s] = "idle" => Len(messages[s]) % 2 = 0
             /\ pc[s] # "idle" =>
                   /\ Len(messages[s]) % 2 = 1
                   /\ messages[s][Len(messages[s])] = [role |-> "user", content |-> query[s]])
    /\ [][\A s \in sessions :
             \/ messages'[s] = messages[s]
             \/ /\ Len(messages'[s]) = Len(messages[s]) + 1
                /\ SubSeq(messages'[s], 1, Len(messages[s])) = messages[s]
                /\ (pc[s] = "idle") # (pc'[s] = "idle")]_vars

\* a request that raised and a request that got the "not configured"
\* string: two messages each
C25_Witness ==
    /\ pc[1] = "idle"
    /\ Len(messages[1]) = 4
    /\ C25_Pairs(messages[1], 4)
    /\ StartsWith(messages[1][2].content, "An error occurred: ")
    /\ StartsWith(messages[1][4].content, "Knowledge base is not configured.")

-----------------------------------------------------------------------------
(* Properties of extract_hotel_tuple, under SpecHotelTuple *)

HotelTupleDone == call.fn = "extract_hotel_tuple" /\ call.done

\* v is a number or the text of one
C27_Convertible(v) ==
    \/ v.t = "num"
    \/ v.t = "str" /\ \E x \in {"48.8", " 2.3 ", "1.5"} : v.s = x

\* some field of d named in keys carries a value convertible to a number
C27_Carries(d, keys) ==
    \E i \in 1..Len(d.m) : d.m[i].k \in keys /\ C27_Convertible(d.m[i].v)

\* C27: the coordinates come from the item's top-level fields when the item
\* has no "location" object and from the location's fields when "location" is
\* a dict; a coordinate is None only when no such field carries a value
\* convertible to a number.
C27_CoordinatesFound ==
    HotelTupleDone =>
        LET item == call.item
            location == Get(item, "location")
            from == IF IsDict(location) THEN location ELSE item
        IN /\ call.ret.lat = JNull => ~C27_Carries(from, {"lat", "latitude"})
           /\ call.ret.lon = JNull => ~C27_Carries(from, {"lon", "lng", "longitude"})

-----------------------------------------------------------------------------
(* Properties of flatten_candidates, under SpecFlatten *)

FlattenDone == call.fn = "flatten_candidates" /\ call.done

\* ret holds, in order, the elements of the list l that are dicts
C28_DictElementsOf(ret, l) ==
    \E pos \in [1..Len(ret) -> 1..Len(l.m)] :
        /\ \A n \in 1..Len(ret) : ret[n] = l.m[pos[n]].v
        /\ \A n \in 1..Len(ret) : \A k \in 1..Len(ret) : n < k => pos[n] < pos[k]
        /\ \A p \in 1..Len(l.m) :
              l.m[p].v.t = "dict" <=> \E n \in 1..Len(ret) : pos[n] = p

\* the value of the dict c under key number i of the priority list
C28_Under(c, i) ==
    LET key == << "data", "results", "items", "hotels", "accommodations" >>[i]
    IN IF \E p \in 1..Len(c.m) : c.m[p].k = key
       THEN c.m[CHOOSE p \in 1..Len(c.m) : c.m[p].k = key].v
       ELSE JNull

\* C28: a list yields its dict elements in order; a dict yields the dict
\* elements of the value under the first of "data", "results", "items",
\* "hotels", "accommodations" whose value is a list; any other input, and a
\* dict with no such list-valued key, yields the empty list; the result never
\* contains a non-dict element.
C28_PriorityDecode ==
    FlattenDone =>
        LET c == call.container
            ret == call.ret
        IN /\ c.t = "list" => C28_DictElementsOf(ret, c)
           /\ c.t = "dict" =>
                 /\ \A i \in 1..5 :
                       (/\ C28_Under(c, i).t = "list"
                        /\ \A j \in 1..(i - 1) : C28_Under(c, j).t # "list")
                           => C28_DictElementsOf(ret, C28_Under(c, i))
                 /\ (\A i \in 1..5 : C28_Under(c, i).t # "list") => ret = <<>>
           /\ c.t \notin {"list", "dict"} => ret = <<>>
           /\ \A n \in 1..Len(ret) : ret[n].t = "dict"

\* a dict whose "data" is not a list and whose "results" is a list of dicts
\* and other values has been decoded to the dicts under "results"
C28_Witness ==
    /\ FlattenDone
    /\ call.container.t = "dict"
    /\ C28_Under(call.container, 1).t = "str"
    /\ C28_Under(call.container, 2).t = "list"
    /\ \E p \in 1..Len(C28_Under(call.container, 2).m) :
          C28_Under(call.container, 2).m[p].v.t # "dict"
    /\ Len(call.ret) = 2

-----------------------------------------------------------------------------
(* Properties of airtrotter_hotel_availability_tool, under SpecAvailabilityTool *)

AvailabilityToolReturned ==
    call.fn = "airtrotter_hotel_availability_tool" /\ call.done /\ call.raised = ""

\* sub is a subsequence of seq: its elements, in the same relative order
C29_Subsequence(sub, seq) ==
    \E pos \in [1..Len(sub) -> 1..Len(seq)] :
        /\ \A n \in 1..Len(sub) : sub[n] = seq[pos[n]]
        /\ \A n \in 1..Len(sub) : \A k \in 1..Len(sub) : n < k => pos[n] < pos[k]

\* the item has a hotel_id, id or hotelId whose string form is x
C29_HasId(item, x) ==
    \E p \in 1..Len(item.m) :
        /\ item.m[p].k \in {"hotel_id", "id", "hotelId"}
        /\ item.m[p].v.t \in {"str", "num"}
        /\ item.m[p].v.s = x

\* C29: "filtered" is a subsequence of flatten_candidates(raw); when hotel_id
\* is provided every filtered item has a hotel_id/id/hotelId whose string form
\* equals it; when hotel_id, block_id and currency are all absent "filtered"
\* is the full candidate list.
C29_FilteredToHotel ==
    AvailabilityToolReturned =>
        /\ C29_Subsequence(call.filtered, flatten_candidates(call.raw))
        /\ (call.hotel_id.t = "str" /\ call.hotel_id.s # "") =>
              \A n \in 1..Len(call.filtered) : C29_HasId(call.filtered[n], call.hotel_id.s)
        /\ (call.hotel_id = JNull /\ call.block_id = JNull /\ call.currency = JNull) =>
              call.filtered = flatten_candidates(call.raw)

-----------------------------------------------------------------------------
(* Properties of external_hotel_best_match_availability, under SpecBestMatch *)

\* the search has answered and the function has returned or raised
BestMatchSearched ==
    /\ call.fn = "external_hotel_best_match_availability"
    /\ call.at = "done"
    /\ Len(call.requests) > 0
    /\ call.requests[1] = "searchProperties"
    /\ ~(call.raised # "" /\ Len(call.requests) = 1)

C26_AvailabilityRequests ==
    Len(SelectSeq(call.requests, LAMBDA r : r = "hotelAvailabilityByCity"))

\* C26: the availability-by-city request is issued (exactly once) iff the
\* search returned at least one result and the selected best match yields a
\* latitude and a longitude; otherwise availability is None and no
\* availability request is made; best_match is None exactly when the search
\* results are empty.
C26_AvailabilityIffCoordinates ==
    BestMatchSearched =>
        LET located == /\ call.results # <<>>
                       /\ call.best # JNull
                       /\ extract_hotel_tuple(call.best).lat # JNull
                       /\ extract_hotel_tuple(call.best).lon # JNull
        IN /\ located => C26_AvailabilityRequests = 1
           /\ ~located => C26_AvailabilityRequests = 0 /\ call.availability = JNull
           /\ call.raised = "" => (call.best_match = JNull <=> call.results = <<>>)

-----------------------------------------------------------------------------
(* Properties of run_research_workflow, under SpecWorkflow *)

\* the run is over and all three agent calls succeeded
C30_AgentsSucceeded ==
    /\ call.fn = "run_research_workflow"
    /\ call.at = "done"
    /\ \A agent \in {"researcher", "analyst", "writer"} :
          \E n \in 1..Len(call.invoked) :
              call.invoked[n].agent = agent /\ ~call.invoked[n].failed

\* the prompt ends with the text
C30_Receives(prompt, text) ==
    /\ Len(prompt) >= Len(text)
    /\ text # "" => SubSeq(prompt, Len(prompt) - Len(text) + 1, Len(prompt)) = text

\* C30: when the three agent calls succeed, the Researcher, Analyst and
\* Writer agents are each invoked exactly once in that order, each later stage
\* receives the previous stage's output, and the function returns the Writer
\* agent's report, also when saving or opening the visual report raises.
C30_ThreeStagesInOrder ==
    C30_AgentsSucceeded =>
        /\ [n \in 1..Len(call.invoked) |-> call.invoked[n].agent]
              = << "researcher", "analyst", "writer" >>
        /\ C30_Receives(call.invoked[2].prompt, call.invoked[1].out)
        /\ C30_Receives(call.invoked[3].prompt, call.invoked[2].out)
        /\ call.raised = ""
        /\ ~call.ret.none
        /\ call.ret.str = call.invoked[3].out

\* the three agents answered, saving the visual report failed, and the
\* writer's report was returned
C30_Witness ==
    /\ C30_AgentsSucceeded
    /\ call.visual = "save failed"
    /\ call.invoked[1].out # ""
    /\ call.invoked[2].out # ""
    /\ call.ret = [none |-> FALSE, str |-> "# Report\nPartly true."]

====
